---------------------------- MODULE Spec2Model ----------------------------
(***************************************************************************)
(* A model of go-nfe-validator: the access-key arithmetic and key          *)
(* derivation (pkg/nfe/parser.go, internal/validation/helpers.go), the     *)
(* two-shape document parser (ParseNFe), the validation pipelines of the   *)
(* library client and of the command-line programs, the status query and   *)
(* its decoding, the schema check under concurrency and the trust store of *)
(* sefaz.NewClient.                                                        *)
(*                                                                         *)
(* Go strings are byte strings.  A string is modelled as a sequence of     *)
(* bytes; an ASCII byte is written as its character ("0", "N", " ") and a  *)
(* byte >= 0x80 by its hexadecimal name ("xC3").  len(s) is Len(s) and     *)
(* s[i:] is a byte slice, as in Go.                                        *)
(***************************************************************************)
EXTENDS Integers, Sequences, FiniteSets, TLC

VARIABLES
  arg,      \* the input string of the access-key functions
  kop,      \* the last call made on it
  kerr,     \* the error ValidarChaveAcesso returned
  kprev,    \* the accepted key before its last digit was replaced
  kout,     \* the keys the ExtractChaveFromID implementations returned
  ldoc,     \* the logical document whose forms are parsed
  parsed,   \* per form of the document, what the parsers returned
  entry,    \* the entry point that runs
  flags,    \* its -xsd and -skip-sefaz flags
  xdoc,     \* the logical document it is given
  xform,    \* the form in which the document is given
  chaveArg, \* the access key it is given (ValidarChave, -chave)
  pc,       \* the phase it is about to run
  nfeEnv,   \* its local: the parsed envelope
  xchave,   \* its local chave: the access key
  result,   \* the result it builds
  out,      \* how it ended: the result returned or printed, error, exit code
  ran,      \* the phases it ran, each with its success
  sent,     \* the keys of the status queries it sent
  resp,     \* what the network does with the one request of the decoder
  decoded,  \* what ConsultaSituacaoNFe returned for it
  scode,    \* the code of a StatusSefaz
  preds,    \* what the predicates of StatusSefaz say of it
  calls,    \* the concurrent calls of ValidateWithXSD: input, position, result
  lib,      \* the process-wide state of the schema library
  tenv,     \* what sefaz.NewClient finds: configuration, key pair, directory
  tst       \* its position, the pool it builds, its warnings and its result

kvars == <<arg, kop, kerr, kprev, kout>>
pvars == <<ldoc, parsed>>
xvars == <<entry, flags, xdoc, xform, chaveArg, pc, nfeEnv, xchave, result, out,
           ran, sent>>
dvars == <<resp, decoded, scode, preds>>
cvars == <<calls, lib>>
tvars == <<tenv, tst>>
vars == <<kvars, pvars, xvars, dvars, cvars, tvars>>

\* What each machine leaves alone.
notK == <<pvars, xvars, dvars, cvars, tvars>>
notP == <<kvars, xvars, dvars, cvars, tvars>>
notX == <<kvars, pvars, dvars, cvars, tvars>>
notD == <<kvars, pvars, xvars, cvars, tvars>>
notC == <<kvars, pvars, xvars, dvars, tvars>>
notT == <<kvars, pvars, xvars, dvars, cvars>>

-----------------------------------------------------------------------------
(* Bytes and the string helpers of the Go standard library that are used.  *)

Digits == {"0", "1", "2", "3", "4", "5", "6", "7", "8", "9"}

\* The numeric value of a byte (only the bytes the inputs are built from).
ByteVal(b) ==
  CASE b = "0" -> 48 [] b = "1" -> 49 [] b = "2" -> 50 [] b = "3" -> 51
    [] b = "4" -> 52 [] b = "5" -> 53 [] b = "6" -> 54 [] b = "7" -> 55
    [] b = "8" -> 56 [] b = "9" -> 57
    [] b = " " -> 32 [] b = "\n" -> 10 [] b = "\t" -> 9
    [] b = "A" -> 65 [] b = "F" -> 70 [] b = "N" -> 78
    [] b = "e" -> 101 [] b = "f" -> 102 [] b = "n" -> 110
    [] b = "xC2" -> 194 [] b = "xA0" -> 160
    [] b = "xC3" -> 195 [] b = "xA9" -> 169

\* unicode.IsSpace on the one-byte runes.
AsciiSpace == {" ", "\n", "\t"}

\* U+00A0 (no-break space) is the two bytes C2 A0; unicode.IsSpace holds of it.
NBSP == <<"xC2", "xA0">>

\* U+00E9 (e acute) is the two bytes C3 A9; not a space, not a digit.
EACUTE == <<"xC3", "xA9">>

RECURSIVE TrimLeft(_)
TrimLeft(s) ==
  IF s = <<>> THEN s
  ELSE IF Head(s) \in AsciiSpace THEN TrimLeft(Tail(s))
  ELSE IF Len(s) >= 2 /\ SubSeq(s, 1, 2) = NBSP THEN TrimLeft(SubSeq(s, 3, Len(s)))
  ELSE s

RECURSIVE TrimRight(_)
TrimRight(s) ==
  IF s = <<>> THEN s
  ELSE IF s[Len(s)] \in AsciiSpace THEN TrimRight(SubSeq(s, 1, Len(s) - 1))
  ELSE IF Len(s) >= 2 /\ SubSeq(s, Len(s) - 1, Len(s)) = NBSP
       THEN TrimRight(SubSeq(s, 1, Len(s) - 2))
  ELSE s

\* strings.TrimSpace: leading and trailing white space runes removed.
TrimSpace(s) == TrimRight(TrimLeft(s))

\* strings.HasPrefix
HasPrefix(s, p) == Len(s) >= Len(p) /\ SubSeq(s, 1, Len(p)) = p

\* for _, c := range s { if c < '0' || c > '9' ... }: a rune of a valid
\* UTF-8 string is an ASCII digit iff it is one byte and that byte is a
\* digit, so the loop finds a non-digit rune iff some byte is not a digit.
AllDigitRunes(s) == \A i \in 1..Len(s) : s[i] \in Digits

-----------------------------------------------------------------------------
(* Program constants.                                                      *)

KeyLen == 44
BaseLen == 43
IdLen == 47
PrefixLen == 3
MultInicial == 2
MultMax == 9
Modulo == 11

NFePrefix == <<"N", "F", "e">>

\* The error values of ValidarChaveAcesso (nil is "ok").
ErrTamanho == "chave deve ter exatamente 44 digitos"
ErrNumeros == "chave deve conter apenas numeros"
ErrDV == "digito verificador invalido"

-----------------------------------------------------------------------------
(* pkg/nfe/parser.go: the check digit and the key validator.               *)

\* int(base[i] - '0'): a byte subtraction, modulo 256.
DigitoDe(b) == (ByteVal(b) - 48 + 256) % 256

\* The loop "for i := len(base) - 1; i >= 0; i--" with its two loop
\* variables; i counts from Len(base) down to 1 here.
RECURSIVE SomaLoop(_, _, _, _)
SomaLoop(base, i, multiplicador, soma) ==
  IF i < 1 THEN soma
  ELSE LET m == multiplicador + 1
       IN  SomaLoop(base, i - 1,
                    IF m > MultMax THEN MultInicial ELSE m,
                    soma + DigitoDe(base[i]) * multiplicador)

\* A slip: the weights applied from the left instead of from the right.
RECURSIVE SomaLoopDaEsquerda(_, _, _, _)
SomaLoopDaEsquerda(base, i, multiplicador, soma) ==
  IF i > Len(base) THEN soma
  ELSE LET m == multiplicador + 1
       IN  SomaLoopDaEsquerda(base, i + 1,
                              IF m > MultMax THEN MultInicial ELSE m,
                              soma + DigitoDe(base[i]) * multiplicador)

validarDigitoVerificador_DaEsquerda(chave) ==
  IF Len(chave) # KeyLen THEN FALSE
  ELSE LET base == SubSeq(chave, 1, BaseLen)
           soma == SomaLoopDaEsquerda(base, 1, MultInicial, 0)
           resto == soma % Modulo
           dvCalculado == IF resto = 0 \/ resto = 1 THEN 0 ELSE Modulo - resto
       IN  dvCalculado = DigitoDe(chave[BaseLen + 1])

\* A slip: the base and the digit taken one byte short (chave[:42], chave[42]).
validarDigitoVerificador_BaseCurta(chave) ==
  IF Len(chave) # KeyLen THEN FALSE
  ELSE LET base == SubSeq(chave, 1, BaseLen - 1)
           soma == SomaLoop(base, Len(base), MultInicial, 0)
           resto == soma % Modulo
           dvCalculado == IF resto = 0 \/ resto = 1 THEN 0 ELSE Modulo - resto
       IN  dvCalculado = DigitoDe(chave[BaseLen])

validarDigitoVerificador(chave) ==
  IF Len(chave) # KeyLen THEN FALSE
  ELSE LET base == SubSeq(chave, 1, BaseLen)
           dvEsperado == chave[BaseLen + 1]
           soma == SomaLoop(base, Len(base), MultInicial, 0)
           resto == soma % Modulo
           dvCalculado == IF resto = 0 \/ resto = 1 THEN 0 ELSE Modulo - resto
       IN  dvCalculado = DigitoDe(dvEsperado)

\* A slip: the loop over the runes left out.
ValidarChaveAcesso_SemLoop(chave0) ==
  LET chave == TrimSpace(chave0)
  IN  IF Len(chave) # KeyLen THEN ErrTamanho
      ELSE IF ~validarDigitoVerificador(chave) THEN ErrDV
      ELSE "ok"

ValidarChaveAcesso(chave0) ==
  LET chave == TrimSpace(chave0)
  IN  IF Len(chave) # KeyLen THEN ErrTamanho
      ELSE IF ~AllDigitRunes(chave) THEN ErrNumeros
      ELSE IF ~validarDigitoVerificador(chave) THEN ErrDV
      ELSE "ok"

-----------------------------------------------------------------------------
(* Key derivation from the identifier attribute: three implementations.    *)

\* pkg/nfe/parser.go
nfe_ExtractChaveFromID(id0) ==
  LET id == TrimSpace(id0)
  IN  IF HasPrefix(id, NFePrefix) /\ Len(id) = IdLen
      THEN SubSeq(id, PrefixLen + 1, Len(id))
      ELSE IF Len(id) = KeyLen THEN id
      ELSE <<>>

\* A slip: the slice taken from the wrong offset (id[4:]).
validation_ExtractChaveFromID_Offset(id0) ==
  LET id == TrimSpace(id0)
  IN  IF HasPrefix(id, NFePrefix) /\ Len(id) = IdLen
      THEN SubSeq(id, PrefixLen + 2, Len(id))
      ELSE <<>>

\* internal/validation/helpers.go
validation_ExtractChaveFromID(id0) ==
  LET id == TrimSpace(id0)
  IN  IF HasPrefix(id, NFePrefix) /\ Len(id) = IdLen
      THEN SubSeq(id, PrefixLen + 1, Len(id))
      ELSE <<>>

\* main.go
extractChaveFromID(id0) ==
  LET id == TrimSpace(id0)
  IN  IF HasPrefix(id, NFePrefix) /\ Len(id) = IdLen
      THEN SubSeq(id, PrefixLen + 1, Len(id))
      ELSE <<>>

-----------------------------------------------------------------------------
(* encoding/xml: a document and xml.Unmarshal into the NF-e structs.       *)
(*                                                                         *)
(* A document is either not well-formed (the decoder raises a syntax       *)
(* error) or a tree of elements; an element has a name, attributes, child  *)
(* elements and the character data directly inside it.                     *)

El(name, attrs, kids, text) ==
  [name |-> name, attrs |-> attrs, kids |-> kids, text |-> text]
Leaf(name, text) == El(name, <<>>, <<>>, text)
Attr(name, value) == [name |-> name, value |-> value]

\* The zero values of the structs (types.go).
ZeroIde == [Modelo |-> <<>>, Serie |-> <<>>, NumNf |-> <<>>]
ZeroEmit == [CNPJ |-> <<>>, XNome |-> <<>>]
ZeroDest == [CNPJ |-> <<>>, CPF |-> <<>>, XNome |-> <<>>]
ZeroICMSTot == [VNF |-> <<>>]
ZeroTotal == [ICMSTot |-> ZeroICMSTot]
ZeroInfNFe ==
  [ID |-> <<>>, Ide |-> ZeroIde, Emit |-> ZeroEmit, Dest |-> ZeroDest,
   Total |-> ZeroTotal]
ZeroNFeEnvelope == [InfNFe |-> ZeroInfNFe]
ZeroProcNFe == [NFe |-> ZeroNFeEnvelope]

\* The decoder walks the children (or the attributes) of an element in
\* document order and stores each one that matches a field into that
\* field; one that matches no field is skipped, a later match overwrites.
FoldSeq(Step(_, _), v0, seq) ==
  LET f[i \in 0..Len(seq)] == IF i = 0 THEN v0 ELSE Step(f[i - 1], seq[i])
  IN  f[Len(seq)]

\* A string field holds the character data of its element.
DecIdeKid(v, k) ==
  CASE k.name = "mod" -> [v EXCEPT !.Modelo = k.text]
    [] k.name = "serie" -> [v EXCEPT !.Serie = k.text]
    [] k.name = "nNF" -> [v EXCEPT !.NumNf = k.text]
    [] OTHER -> v
DecIde(v, el) == FoldSeq(DecIdeKid, v, el.kids)

DecEmitKid(v, k) ==
  CASE k.name = "CNPJ" -> [v EXCEPT !.CNPJ = k.text]
    [] k.name = "xNome" -> [v EXCEPT !.XNome = k.text]
    [] OTHER -> v
DecEmit(v, el) == FoldSeq(DecEmitKid, v, el.kids)

DecDestKid(v, k) ==
  CASE k.name = "CNPJ" -> [v EXCEPT !.CNPJ = k.text]
    [] k.name = "CPF" -> [v EXCEPT !.CPF = k.text]
    [] k.name = "xNome" -> [v EXCEPT !.XNome = k.text]
    [] OTHER -> v
DecDest(v, el) == FoldSeq(DecDestKid, v, el.kids)

DecICMSTotKid(v, k) ==
  CASE k.name = "vNF" -> [v EXCEPT !.VNF = k.text]
    [] OTHER -> v
DecICMSTot(v, el) == FoldSeq(DecICMSTotKid, v, el.kids)

DecTotalKid(v, k) ==
  CASE k.name = "ICMSTot" -> [v EXCEPT !.ICMSTot = DecICMSTot(v.ICMSTot, k)]
    [] OTHER -> v
DecTotal(v, el) == FoldSeq(DecTotalKid, v, el.kids)

\* ID string `xml:"Id,attr"`
DecInfNFeAttr(v, a) ==
  IF a.name = "Id" THEN [v EXCEPT !.ID = a.value] ELSE v
DecInfNFeKid(v, k) ==
  CASE k.name = "ide" -> [v EXCEPT !.Ide = DecIde(v.Ide, k)]
    [] k.name = "emit" -> [v EXCEPT !.Emit = DecEmit(v.Emit, k)]
    [] k.name = "dest" -> [v EXCEPT !.Dest = DecDest(v.Dest, k)]
    [] k.name = "total" -> [v EXCEPT !.Total = DecTotal(v.Total, k)]
    [] OTHER -> v
DecInfNFe(v, el) ==
  FoldSeq(DecInfNFeKid, FoldSeq(DecInfNFeAttr, v, el.attrs), el.kids)

DecNFeEnvelopeKid(v, k) ==
  CASE k.name = "infNFe" -> [v EXCEPT !.InfNFe = DecInfNFe(v.InfNFe, k)]
    [] OTHER -> v
DecNFeEnvelope(v, el) == FoldSeq(DecNFeEnvelopeKid, v, el.kids)

DecProcNFeKid(v, k) ==
  CASE k.name = "NFe" -> [v EXCEPT !.NFe = DecNFeEnvelope(v.NFe, k)]
    [] OTHER -> v
DecProcNFe(v, el) == FoldSeq(DecProcNFeKid, v, el.kids)

\* The errors of xml.Unmarshal.
ErrSyntax == "XML syntax error"
ErrExpected(want, have) ==
  "expected element type <" \o want \o "> but have <" \o have \o ">"

\* xml.Unmarshal(xmlData, &proc): a struct with an XMLName field accepts
\* only a root element of that name.
Unmarshal_ProcNFe(xmlData) ==
  IF ~xmlData.wf THEN [err |-> ErrSyntax, val |-> ZeroProcNFe]
  ELSE IF xmlData.root.name # "nfeProc"
  THEN [err |-> ErrExpected("nfeProc", xmlData.root.name), val |-> ZeroProcNFe]
  ELSE [err |-> "nil", val |-> DecProcNFe(ZeroProcNFe, xmlData.root)]

\* xml.Unmarshal(xmlData, &nfe)
Unmarshal_NFeEnvelope(xmlData) ==
  IF ~xmlData.wf THEN [err |-> ErrSyntax, val |-> ZeroNFeEnvelope]
  ELSE IF xmlData.root.name # "NFe"
  THEN [err |-> ErrExpected("NFe", xmlData.root.name), val |-> ZeroNFeEnvelope]
  ELSE [err |-> "nil", val |-> DecNFeEnvelope(ZeroNFeEnvelope, xmlData.root)]

-----------------------------------------------------------------------------
(* ParseNFe: pkg/nfe/parser.go, internal/validation and main.go.           *)

\* The errors of ParseNFe; the pkg/nfe one wraps the decoder's error.
ErrFormatoInvalido(cause) ==
  "falha ao parsear XML: nao e um formato NFe valido: " \o cause
ErrIdNaoEncontradoNoXML == "infNFe.Id nao encontrado no XML"
ErrIdNaoEncontrado == "infNFe.Id nao encontrado"

\* A slip: the record of the enveloped decoder is returned without the
\* test of its identifier.
nfe_ParseNFe_SemTesteDoId(xmlData) ==
  LET proc == Unmarshal_ProcNFe(xmlData)
      nfe == Unmarshal_NFeEnvelope(xmlData)
  IN  IF proc.err = "nil"
      THEN [err |-> "nil", nfe |-> proc.val.NFe]
      ELSE IF nfe.err # "nil"
      THEN [err |-> ErrFormatoInvalido(nfe.err), nfe |-> ZeroNFeEnvelope]
      ELSE IF nfe.val.InfNFe.ID = <<>>
      THEN [err |-> ErrIdNaoEncontradoNoXML, nfe |-> ZeroNFeEnvelope]
      ELSE [err |-> "nil", nfe |-> nfe.val]

\* A slip: only the procNFe form is tried.
nfe_ParseNFe_SoProc(xmlData) ==
  LET proc == Unmarshal_ProcNFe(xmlData)
  IN  IF proc.err # "nil"
      THEN [err |-> ErrFormatoInvalido(proc.err), nfe |-> ZeroNFeEnvelope]
      ELSE IF proc.val.NFe.InfNFe.ID = <<>>
      THEN [err |-> ErrIdNaoEncontradoNoXML, nfe |-> ZeroNFeEnvelope]
      ELSE [err |-> "nil", nfe |-> proc.val.NFe]

\* pkg/nfe/parser.go
nfe_ParseNFe(xmlData) ==
  LET proc == Unmarshal_ProcNFe(xmlData)
      nfe == Unmarshal_NFeEnvelope(xmlData)
  IN  IF proc.err = "nil" /\ proc.val.NFe.InfNFe.ID # <<>>
      THEN [err |-> "nil", nfe |-> proc.val.NFe]
      ELSE IF nfe.err # "nil"
      THEN [err |-> ErrFormatoInvalido(nfe.err), nfe |-> ZeroNFeEnvelope]
      ELSE IF nfe.val.InfNFe.ID = <<>>
      THEN [err |-> ErrIdNaoEncontradoNoXML, nfe |-> ZeroNFeEnvelope]
      ELSE [err |-> "nil", nfe |-> nfe.val]

\* internal/validation (and, line for line, parseNFe of main.go)
validation_ParseNFe(xmlBytes) ==
  LET proc == Unmarshal_ProcNFe(xmlBytes)
      nfe == Unmarshal_NFeEnvelope(xmlBytes)
  IN  IF proc.err = "nil" /\ proc.val.NFe.InfNFe.ID # <<>>
      THEN [err |-> "nil", nfe |-> proc.val.NFe]
      ELSE IF nfe.err # "nil"
      THEN [err |-> nfe.err, nfe |-> ZeroNFeEnvelope]
      ELSE IF nfe.val.InfNFe.ID = <<>>
      THEN [err |-> ErrIdNaoEncontrado, nfe |-> ZeroNFeEnvelope]
      ELSE [err |-> "nil", nfe |-> nfe.val]

parseNFe(xmlBytes) == validation_ParseNFe(xmlBytes)

\* ChooseFirstNonEmpty(vals ...string)
RECURSIVE ChooseFirstNonEmpty(_)
ChooseFirstNonEmpty(vals) ==
  IF vals = <<>> THEN <<>>
  ELSE IF TrimSpace(Head(vals)) # <<>> THEN Head(vals)
  ELSE ChooseFirstNonEmpty(Tail(vals))

\* OnlyDigits(s)
OnlyDigits(s) == SelectSeq(s, LAMBDA b : b \in Digits)

\* convertNFeData (pkg/nfe/parser.go)
convertNFeData(nfe) ==
  [Modelo |-> nfe.InfNFe.Ide.Modelo,
   Serie |-> nfe.InfNFe.Ide.Serie,
   Numero |-> nfe.InfNFe.Ide.NumNf,
   Emitente |-> [Documento |-> nfe.InfNFe.Emit.CNPJ,
                 Nome |-> nfe.InfNFe.Emit.XNome],
   Destinatario |->
     [Documento |-> ChooseFirstNonEmpty(<<nfe.InfNFe.Dest.CNPJ,
                                          nfe.InfNFe.Dest.CPF>>),
      Nome |-> nfe.InfNFe.Dest.XNome],
   ValorTotal |-> nfe.InfNFe.Total.ICMSTot.VNF]

ZeroDadosNFe == convertNFeData(ZeroNFeEnvelope)

\* ParsearXML (pkg/nfe/parser.go); a nil *DadosNFe is ok = FALSE.
ParsearXML(xmlData) ==
  LET r == nfe_ParseNFe(xmlData)
  IN  IF r.err # "nil"
      THEN [ok |-> FALSE, err |-> "falha ao parsear XML: " \o r.err,
            dados |-> ZeroDadosNFe]
      ELSE [ok |-> TRUE, err |-> "nil", dados |-> convertNFeData(r.nfe)]

-----------------------------------------------------------------------------
(* internal/sefaz: ConsultaSituacaoNFe.                                    *)
(*                                                                         *)
(* A response body is a sequence of bytes in which each of the four tags   *)
(* the code looks for is one token; a fixed text whose bytes no operation  *)
(* inspects is written as one token too.                                   *)

TagCStat == "<cStat>"
TagCStatEnd == "</cStat>"
TagXMotivo == "<xMotivo>"
TagXMotivoEnd == "</xMotivo>"

\* The first index >= i at which s holds t, or 0.
RECURSIVE IndexFrom(_, _, _)
IndexFrom(s, t, i) ==
  IF i > Len(s) THEN 0
  ELSE IF s[i] = t THEN i
  ELSE IndexFrom(s, t, i + 1)

\* The last index of the run of digits that starts at i (i - 1: no digit).
RECURSIVE DigitRunEnd(_, _)
DigitRunEnd(s, i) ==
  IF i <= Len(s) /\ s[i] \in Digits THEN DigitRunEnd(s, i + 1) ELSE i - 1

SetMin(S) == CHOOSE x \in S : \A y \in S : x <= y

\* A slip: `<cStat>(\d*)</cStat>`, the group may be empty.
cStatRegexFind_Vazio(body) ==
  LET at(i) == /\ body[i] = TagCStat
               /\ DigitRunEnd(body, i + 1) < Len(body)
               /\ body[DigitRunEnd(body, i + 1) + 1] = TagCStatEnd
      I == { i \in 1..Len(body) : at(i) }
  IN  IF I = {} THEN [found |-> FALSE, group |-> <<>>]
      ELSE [found |-> TRUE,
            group |-> SubSeq(body, SetMin(I) + 1, DigitRunEnd(body, SetMin(I) + 1))]

\* cStatRegex.FindStringSubmatch: `<cStat>(\d+)</cStat>`, leftmost match.
cStatRegexFind(body) ==
  LET at(i) == /\ body[i] = TagCStat
               /\ DigitRunEnd(body, i + 1) >= i + 1
               /\ DigitRunEnd(body, i + 1) < Len(body)
               /\ body[DigitRunEnd(body, i + 1) + 1] = TagCStatEnd
      I == { i \in 1..Len(body) : at(i) }
  IN  IF I = {} THEN [found |-> FALSE, group |-> <<>>]
      ELSE [found |-> TRUE,
            group |-> SubSeq(body, SetMin(I) + 1, DigitRunEnd(body, SetMin(I) + 1))]

\* xMotivoRegex.FindStringSubmatch: `<xMotivo>(.*?)</xMotivo>`, leftmost
\* match, the group as short as possible; "." matches no line feed.
xMotivoRegexFind(body) ==
  LET close(i) == IndexFrom(body, TagXMotivoEnd, i + 1)
      at(i) == /\ body[i] = TagXMotivo
               /\ close(i) # 0
               /\ \A j \in (i + 1)..(close(i) - 1) : body[j] # "\n"
      I == { i \in 1..Len(body) : at(i) }
  IN  IF I = {} THEN [found |-> FALSE, group |-> <<>>]
      ELSE [found |-> TRUE,
            group |-> SubSeq(body, SetMin(I) + 1, close(SetMin(I)) - 1)]

\* strings.Split(strings.Split(body, "<xMotivo>")[1], "</xMotivo>")[0], for
\* a body that contains "<xMotivo>".
xMotivoSplit(body) ==
  LET open == IndexFrom(body, TagXMotivo, 1)
      next == IndexFrom(body, TagXMotivo, open + 1)
      part == SubSeq(body, open + 1, IF next = 0 THEN Len(body) ELSE next - 1)
      close == IndexFrom(part, TagXMotivoEnd, 1)
  IN  SubSeq(part, 1, IF close = 0 THEN Len(part) ELSE close - 1)

Cod100 == <<"1", "0", "0">>
Cod110 == <<"1", "1", "0">>
Cod101 == <<"1", "0", "1">>
Cod102 == <<"1", "0", "2">>
Cod217 == <<"2", "1", "7">>
Cod999 == <<"9", "9", "9">>
Cod000 == <<"0", "0", "0">>
CodNA == <<"N", "/", "A">>
MsgNaoParseada == <<"Resposta da SEFAZ nao parseada.">>

ZeroSefazStatus == [Autorizado |-> FALSE, Codigo |-> <<>>, Mensagem |-> <<>>]

\* A slip: only "100" is authorized.
DecodeResposta_So100(body) ==
  LET cStatMatch == cStatRegexFind(body)
      xMotivoMatch == xMotivoRegexFind(body)
      cStat == IF cStatMatch.found THEN cStatMatch.group ELSE Cod999
      xMotivo == IF xMotivoMatch.found THEN xMotivoMatch.group
                 ELSE IF IndexFrom(body, TagXMotivo, 1) # 0 THEN xMotivoSplit(body)
                 ELSE MsgNaoParseada
  IN  [Autorizado |-> (cStat = Cod100),
       Codigo |-> cStat,
       Mensagem |-> xMotivo]

\* The part of ConsultaSituacaoNFe after the body was read.
DecodeResposta(body) ==
  LET cStatMatch == cStatRegexFind(body)
      xMotivoMatch == xMotivoRegexFind(body)
      cStat == IF cStatMatch.found THEN cStatMatch.group ELSE Cod999
      xMotivo == IF xMotivoMatch.found THEN xMotivoMatch.group
                 ELSE IF IndexFrom(body, TagXMotivo, 1) # 0 THEN xMotivoSplit(body)
                 ELSE MsgNaoParseada
  IN  [Autorizado |-> (cStat = Cod100 \/ cStat = Cod110),
       Codigo |-> cStat,
       Mensagem |-> xMotivo]

\* What the network does with one request: the request cannot be built,
\* the connection fails, the body cannot be read, or a body arrives.
RespBodies ==
  { <<TagCStat, "1", "0", "0", TagCStatEnd, TagXMotivo, "A", "u", "t", TagXMotivoEnd>>,
    <<TagCStat, "1", "0", "1", TagCStatEnd, TagXMotivo, "C", "a", "n", TagXMotivoEnd>>,
    <<TagCStat, "2", "1", "7", TagCStatEnd, TagXMotivo, "N", "\n", "c", TagXMotivoEnd>>,
    <<TagCStat, "1", "1", "0", TagCStatEnd>>,
    <<"h", "t", "m", "l">>,
    <<>> }

Outcomes ==
  { [kind |-> k, body |-> <<>>] : k \in {"reqErr", "connErr", "readErr"} } \cup
  { [kind |-> "body", body |-> b] : b \in RespBodies }

\* ConsultaSituacaoNFe(chaveAcesso) under one outcome of the network; the
\* key is embedded in the request and has no part in the decoding.
ConsultaSituacaoNFe(chaveAcesso, outcome) ==
  CASE outcome.kind = "reqErr" ->
         [status |-> [ZeroSefazStatus EXCEPT !.Codigo = Cod999],
          err |-> "erro ao criar requisicao"]
    [] outcome.kind = "connErr" ->
         [status |-> [ZeroSefazStatus EXCEPT !.Codigo = Cod999],
          err |-> "erro na conexao mTLS/webservice"]
    [] outcome.kind = "readErr" ->
         [status |-> [ZeroSefazStatus EXCEPT !.Codigo = Cod999],
          err |-> "erro ao ler resposta"]
    [] outcome.kind = "body" ->
         [status |-> DecodeResposta(outcome.body), err |-> "nil"]

\* consultarSefazMock (main.go)
consultarSefazMock(chave) ==
  IF chave = <<>>
  THEN [Autorizado |-> FALSE, Codigo |-> Cod000,
        Mensagem |-> <<"Chave de acesso nao encontrada no XML">>]
  ELSE [Autorizado |-> TRUE, Codigo |-> Cod100,
        Mensagem |-> <<"Autorizado o uso da NF-e (mock)">>]

-----------------------------------------------------------------------------
(* pkg/nfe/types.go: the status constants and the methods of StatusSefaz.  *)

StatusAutorizado == Cod100
StatusCancelado == Cod101
StatusDenegado == Cod110
StatusInutilizado == Cod102
StatusNaoEncontrado == Cod217

IsAutorizado(Codigo) == Codigo = StatusAutorizado
IsCancelado(Codigo) == Codigo = StatusCancelado
IsDenegado(Codigo) == Codigo = StatusDenegado
IsNaoEncontrado(Codigo) == Codigo = StatusNaoEncontrado

\* A slip: the range of first bytes starts at '1'.
IsRejeitado_Desde1(Codigo) ==
  IF Len(Codigo) = 0 THEN FALSE
  ELSE ByteVal(Codigo[1]) >= ByteVal("1") /\ ByteVal(Codigo[1]) <= ByteVal("6")

IsRejeitado(Codigo) ==
  IF Len(Codigo) = 0 THEN FALSE
  ELSE ByteVal(Codigo[1]) >= ByteVal("2") /\ ByteVal(Codigo[1]) <= ByteVal("6")

IsValido(Codigo) == IsAutorizado(Codigo) \/ IsCancelado(Codigo)

-----------------------------------------------------------------------------
(* The results the entry points produce.                                   *)

\* The extracted fields, in one shape for DadosXMLNFe and DadosNFe.
ZeroDados ==
  [Modelo |-> <<>>, Serie |-> <<>>, Numero |-> <<>>, EmitDoc |-> <<>>,
   EmitNome |-> <<>>, DestDoc |-> <<>>, DestNome |-> <<>>, ValorTotal |-> <<>>]

\* convertInternalNFeData (client.go), and the literal of part_001.
convertInternalNFeData(nfe) ==
  [Modelo |-> nfe.InfNFe.Ide.Modelo,
   Serie |-> nfe.InfNFe.Ide.Serie,
   Numero |-> nfe.InfNFe.Ide.NumNf,
   EmitDoc |-> nfe.InfNFe.Emit.CNPJ,
   EmitNome |-> nfe.InfNFe.Emit.XNome,
   DestDoc |-> ChooseFirstNonEmpty(<<nfe.InfNFe.Dest.CNPJ, nfe.InfNFe.Dest.CPF>>),
   DestNome |-> nfe.InfNFe.Dest.XNome,
   ValorTotal |-> nfe.InfNFe.Total.ICMSTot.VNF]

\* The DadosXMLNFe literal of cmd/validator/main.go and of main.go.
DadosSoDigitos(nfe) ==
  [Modelo |-> nfe.InfNFe.Ide.Modelo,
   Serie |-> nfe.InfNFe.Ide.Serie,
   Numero |-> nfe.InfNFe.Ide.NumNf,
   EmitDoc |-> OnlyDigits(nfe.InfNFe.Emit.CNPJ),
   EmitNome |-> nfe.InfNFe.Emit.XNome,
   DestDoc |-> ChooseFirstNonEmpty(<<OnlyDigits(nfe.InfNFe.Dest.CNPJ),
                                     OnlyDigits(nfe.InfNFe.Dest.CPF)>>),
   DestNome |-> nfe.InfNFe.Dest.XNome,
   ValorTotal |-> nfe.InfNFe.Total.ICMSTot.VNF]

\* ValidationResponse / ValidationResult: the status flattened, the pointer
\* to the extracted fields as a flag and a value, no error as "".
ZeroResult ==
  [ChaveAcesso |-> <<>>, ValidoXSD |-> FALSE, Autorizado |-> FALSE,
   Codigo |-> <<>>, Mensagem |-> <<>>, temDados |-> FALSE, Dados |-> ZeroDados,
   Erro |-> ""]

\* A slip: attaching the status resets ValidoXSD.
WithStatus_SemValidoXSD(r, st) ==
  [r EXCEPT !.Autorizado = st.Autorizado, !.Codigo = st.Codigo,
            !.Mensagem = st.Mensagem, !.ValidoXSD = FALSE]

WithStatus(r, st) ==
  [r EXCEPT !.Autorizado = st.Autorizado, !.Codigo = st.Codigo,
            !.Mensagem = st.Mensagem]

\* A slip: the extracted fields are left out of the result.
WithDados_Omitidos(r, d) == r

WithDados(r, d) == [r EXCEPT !.temDados = TRUE, !.Dados = d]

-----------------------------------------------------------------------------
(* The inputs of the string functions.                                     *)

\* Most white space runes put around an input, on each side.
MaxPad == 1

\* "35250732409620000175550010000037471011544648"
RefKey ==
  <<"3", "5", "2", "5", "0", "7", "3", "2", "4", "0", "9", "6", "2",
  "0", "0", "0", "0", "1", "7", "5", "5", "5", "0", "0", "1", "0", "0",
  "0", "0", "0", "3", "7", "4", "7", "1", "0", "1", "1", "5", "4", "4",
  "6", "4", "8">>
ZeroKey == [i \in 1..KeyLen |-> "0"]
AKey == [i \in 1..KeyLen |-> "A"]

Vary(s, p, d) == [s EXCEPT ![p] = d]

\* Every string of 44 digits that differs from a base key in at most one of
\* the first 43 digits and in the last digit.
DigitKeys ==
  { Vary(Vary(b, p, d), KeyLen, v) :
      b \in {RefKey, ZeroKey}, p \in 1..BaseLen, d \in Digits, v \in Digits }

LastDigitKeys == { Vary(RefKey, KeyLen, v) : v \in Digits }

\* Strings that are not 44 digits: too short, too long, a letter, a
\* two-byte rune, white space inside.
NonKeys ==
  { <<>>,
    SubSeq(RefKey, 1, 43),
    RefKey \o <<"0">>,
    Vary(RefKey, 1, "A"), Vary(RefKey, 22, "A"), Vary(RefKey, KeyLen, "A"),
    SubSeq(RefKey, 1, 43) \o EACUTE,
    SubSeq(RefKey, 1, 42) \o EACUTE,
    SubSeq(RefKey, 1, 21) \o NBSP \o SubSeq(RefKey, 24, 44),
    SubSeq(RefKey, 1, 22) \o <<" ">> \o SubSeq(RefKey, 24, 44),
    SubSeq(RefKey, 1, 22) \o <<" ">> \o SubSeq(RefKey, 23, 44) }

\* Identifier attributes: the prefix on a key, on letters, on too few or too
\* many bytes, another prefix, no prefix.
IdCores ==
  { NFePrefix \o k : k \in LastDigitKeys } \cup
  { NFePrefix \o AKey,
    NFePrefix \o SubSeq(RefKey, 1, 43),
    NFePrefix \o RefKey \o <<"0">>,
    <<"n", "f", "e">> \o RefKey,
    SubSeq(RefKey, 1, 3) \o RefKey,
    NFePrefix \o SubSeq(RefKey, 1, 42) \o EACUTE,
    NFePrefix \o SubSeq(RefKey, 1, 21) \o <<" ">> \o SubSeq(RefKey, 23, 44),
    AKey,
    NFePrefix }

PadUnits == { <<" ">>, <<"\n">>, NBSP }

RECURSIVE Pads(_)
Pads(n) ==
  IF n = 0 THEN { <<>> }
  ELSE Pads(n - 1) \cup { p \o u : p \in Pads(n - 1), u \in PadUnits }

Padded(S) == { l \o s \o r : l \in Pads(MaxPad), s \in S, r \in Pads(MaxPad) }

StrInputs == DigitKeys \cup Padded(LastDigitKeys \cup NonKeys \cup IdCores)

-----------------------------------------------------------------------------
(* The string functions as a state machine: one input, then one call of    *)
(* the validator or of the key derivation; an accepted 44-digit key may    *)
(* then have its last digit replaced and be validated again.               *)

KInit ==
  /\ arg \in StrInputs
  /\ kop = "none"
  /\ kerr = "none"
  /\ kprev = <<>>
  /\ kout = [nfe |-> <<>>, validation |-> <<>>, main |-> <<>>]
  /\ ldoc = "idle"
  /\ parsed = "idle"
  /\ entry = "idle"
  /\ flags = [xsdOnly |-> FALSE, skipSefaz |-> FALSE]
  /\ xdoc = "idle"
  /\ xform = "idle"
  /\ chaveArg = <<>>
  /\ pc = "idle"
  /\ nfeEnv = ZeroNFeEnvelope
  /\ xchave = <<>>
  /\ result = ZeroResult
  /\ out = [kind |-> "none", nil |-> TRUE, err |-> "nil", exit |-> 0]
  /\ ran = <<>>
  /\ sent = <<>>
  /\ resp = "idle"
  /\ decoded = "idle"
  /\ scode = <<>>
  /\ preds = "idle"
  /\ calls = <<>>
  /\ lib = [init |-> FALSE, gen |-> 0]
  /\ tenv = "idle"
  /\ tst = "idle"

CallValidarChaveAcesso ==
  /\ kop = "none"
  /\ kop' = "validar"
  /\ kerr' = ValidarChaveAcesso(arg)
  /\ UNCHANGED <<arg, kprev, kout, notK>>

CallExtractChaveFromID ==
  /\ kop = "none"
  /\ kop' = "extract"
  /\ kout' = [nfe |-> nfe_ExtractChaveFromID(arg),
              validation |-> validation_ExtractChaveFromID(arg),
              main |-> extractChaveFromID(arg)]
  /\ UNCHANGED <<arg, kerr, kprev, notK>>

FlipLastDigit ==
  /\ kop = "validar"
  /\ kerr = "ok"
  /\ Len(arg) = KeyLen
  /\ \E d \in Digits \ {arg[KeyLen]} :
       /\ arg' = Vary(arg, KeyLen, d)
       /\ kerr' = ValidarChaveAcesso(arg')
  /\ kprev' = arg
  /\ kop' = "flip"
  /\ UNCHANGED <<kout, notK>>

KNext == CallValidarChaveAcesso \/ CallExtractChaveFromID \/ FlipLastDigit

SpecKey == KInit /\ [][KNext]_vars


-----------------------------------------------------------------------------
(* The documents that are parsed.                                          *)

\* A logical document: the identifier attribute (absent, or its value) and
\* the fields of the note.
IdValues ==
  { <<>>, <<" ">>, NFePrefix \o RefKey, RefKey, NFePrefix \o <<"1", "2", "3">>,
    NFePrefix \o AKey }

Txt55 == <<"5", "5">>
Txt65 == <<"6", "5">>
TxtCNPJ == <<"1", "2", "3", "4", "5", "6", "7", "8", "0", "0", "0", "1", "9", "9">>
TxtCNPJFmt == <<"1", "2", " ", "3", "4", "5">>
TxtCPF == <<"5", "3", "7", "4", "5", "4", "3", "2", "0", "0", "1">>

\* The recipient's CNPJ and CPF elements: absent (""), blank, or a number.
DestDocs ==
  { [CNPJ |-> TxtCNPJ, CPF |-> <<>>], [CNPJ |-> <<>>, CPF |-> TxtCPF],
    [CNPJ |-> TxtCNPJ, CPF |-> TxtCPF], [CNPJ |-> <<" ">>, CPF |-> TxtCPF],
    [CNPJ |-> TxtCNPJFmt, CPF |-> <<>>], [CNPJ |-> <<>>, CPF |-> <<>>] }

LogicalDocs ==
  { [hasId |-> h, id |-> i, mod |-> m, dest |-> d] :
      h \in BOOLEAN, i \in IdValues, m \in {Txt55, Txt65}, d \in DestDocs }
  \ { [hasId |-> FALSE, id |-> i, mod |-> m, dest |-> d] :
      i \in IdValues \ {<<>>}, m \in {Txt55, Txt65}, d \in DestDocs }

OptLeaf(name, text) == IF text = <<>> THEN <<>> ELSE <<Leaf(name, text)>>

\* <NFe><infNFe versao="4.00" Id="..."><ide/><emit/><det/><dest/><total/>
\* </infNFe><Signature/></NFe>
NFeElement(d) ==
  El("NFe", <<>>,
     << El("infNFe",
           <<Attr("versao", <<"4", ".", "0", "0">>)>> \o
             (IF d.hasId THEN <<Attr("Id", d.id)>> ELSE <<>>),
           << El("ide", <<>>,
                 <<Leaf("cUF", <<"3", "5">>), Leaf("mod", d.mod),
                   Leaf("serie", <<"1">>), Leaf("nNF", <<"3", "7", "4", "7">>)>>,
                 <<>>),
              El("emit", <<>>,
                 <<Leaf("CNPJ", TxtCNPJ), Leaf("xNome", <<"E", "M", "P">>)>>, <<>>),
              El("det", <<Attr("nItem", <<"1">>)>>,
                 <<Leaf("xNome", <<"X">>), Leaf("vNF", <<"0">>)>>, <<>>),
              El("dest", <<>>,
                 OptLeaf("CNPJ", d.dest.CNPJ) \o OptLeaf("CPF", d.dest.CPF) \o
                   <<Leaf("xNome", <<"C", "L", "I">>)>>, <<>>),
              El("total", <<>>,
                 <<El("ICMSTot", <<>>,
                      <<Leaf("vBC", <<"0">>),
                        Leaf("vNF", <<"1", "9", "9", ".", "9", "0">>)>>, <<>>)>>,
                 <<>>) >>,
           <<"\n">>),
        El("Signature", <<>>, <<>>, <<>>) >>,
     <<"\n">>)

\* <protNFe><infProt Id="ID135..."><chNFe/><cStat/><xMotivo/></infProt></protNFe>
ProtElement ==
  El("protNFe", <<Attr("versao", <<"4", ".", "0", "0">>)>>,
     << El("infProt", <<Attr("Id", <<"I", "D", "1", "3", "5">>)>>,
           <<Leaf("chNFe", RefKey), Leaf("cStat", <<"1", "0", "0">>),
             Leaf("xMotivo", <<"A">>)>>, <<>>) >>,
     <<>>)

\* The forms a logical document is given in.
Forms == {"enveloped", "bare", "semNFe", "outraRaiz", "malformado"}

Render(d, form) ==
  CASE form = "enveloped" ->
         [wf |-> TRUE,
          root |-> El("nfeProc", <<Attr("versao", <<"4", ".", "0", "0">>)>>,
                      <<NFeElement(d), ProtElement>>, <<"\n">>)]
    [] form = "bare" -> [wf |-> TRUE, root |-> NFeElement(d)]
    [] form = "semNFe" ->
         [wf |-> TRUE, root |-> El("nfeProc", <<>>, <<ProtElement>>, <<>>)]
    [] form = "outraRaiz" ->
         [wf |-> TRUE, root |-> El("html", <<>>, <<NFeElement(d)>>, <<>>)]
    [] form = "malformado" -> [wf |-> FALSE, root |-> NFeElement(d)]

-----------------------------------------------------------------------------
(* The parsers as a state machine: one logical document; each of its forms *)
(* is parsed once, by every implementation.                                *)

NotParsed ==
  [done |-> FALSE, nfe |-> [err |-> "nil", nfe |-> ZeroNFeEnvelope],
   validation |-> [err |-> "nil", nfe |-> ZeroNFeEnvelope],
   main |-> [err |-> "nil", nfe |-> ZeroNFeEnvelope],
   parsear |-> [ok |-> FALSE, err |-> "nil", dados |-> ZeroDadosNFe]]

PInit ==
  /\ ldoc \in LogicalDocs
  /\ parsed = [f \in Forms |-> NotParsed]
  /\ arg = <<>>
  /\ kop = "idle"
  /\ kerr = "none"
  /\ kprev = <<>>
  /\ kout = [nfe |-> <<>>, validation |-> <<>>, main |-> <<>>]
  /\ entry = "idle"
  /\ flags = [xsdOnly |-> FALSE, skipSefaz |-> FALSE]
  /\ xdoc = "idle"
  /\ xform = "idle"
  /\ chaveArg = <<>>
  /\ pc = "idle"
  /\ nfeEnv = ZeroNFeEnvelope
  /\ xchave = <<>>
  /\ result = ZeroResult
  /\ out = [kind |-> "none", nil |-> TRUE, err |-> "nil", exit |-> 0]
  /\ ran = <<>>
  /\ sent = <<>>
  /\ resp = "idle"
  /\ decoded = "idle"
  /\ scode = <<>>
  /\ preds = "idle"
  /\ calls = <<>>
  /\ lib = [init |-> FALSE, gen |-> 0]
  /\ tenv = "idle"
  /\ tst = "idle"

CallParseNFe(form) ==
  /\ ~parsed[form].done
  /\ parsed' =
       [parsed EXCEPT ![form] =
          [done |-> TRUE,
           nfe |-> nfe_ParseNFe(Render(ldoc, form)),
           validation |-> validation_ParseNFe(Render(ldoc, form)),
           main |-> parseNFe(Render(ldoc, form)),
           parsear |-> ParsearXML(Render(ldoc, form))]]
  /\ UNCHANGED <<ldoc, notP>>

PNext == \E form \in Forms : CallParseNFe(form)

SpecParse == PInit /\ [][PNext]_vars

-----------------------------------------------------------------------------
(* The validation pipelines: Client.ValidarXML, Client.ValidarXMLBytes and *)
(* Client.ValidarChave (pkg/nfe/client.go), the main of                    *)
(* cmd/validator/main.go ("validator"), the main with the -chave mode      *)
(* (part_001, "cli") and the main with the mock query (main.go, "mock").   *)
(* One run of one entry point; each phase is one step.  Whether the file   *)
(* can be read, whether the document satisfies the schema, whether the     *)
(* trust store can be set up and what the network does are chosen when the *)
(* phase runs.                                                             *)

Entries == {"ValidarXML", "ValidarXMLBytes", "ValidarChave", "validator", "cli", "mock"}
LibEntries == {"ValidarXML", "ValidarXMLBytes"}

RefKeyFmt == SubSeq(RefKey, 1, 4) \o <<" ">> \o SubSeq(RefKey, 5, KeyLen)
ChaveArgs ==
  { <<>>, RefKey, RefKeyFmt, SubSeq(RefKey, 1, BaseLen), AKey,
    NFePrefix \o SubSeq(RefKey, 1, KeyLen - PrefixLen) }

\* The run is a query by key: ValidarChave, or the cli given -chave.
KeyMode(e, k) == e = "ValidarChave" \/ (e = "cli" /\ k # <<>>)

\* A slip: ValidarXMLBytes starts at the parse.
FirstPhase_SemXSD(e, k) ==
  IF KeyMode(e, k) THEN "formato"
  ELSE IF e = "ValidarXMLBytes" THEN "parse"
  ELSE "read"

\* The first phase of a run once it has its client (the library), or from
\* its start (the mains).
FirstPhase(e, k) ==
  IF KeyMode(e, k) THEN "formato"
  ELSE IF e = "ValidarXMLBytes" THEN "xsd"
  ELSE "read"

\* The methods of Client are called on a Client: nfe.NewClient runs first.
StartPhase(e, k) ==
  IF e \in {"ValidarXML", "ValidarXMLBytes", "ValidarChave"} THEN "client"
  ELSE FirstPhase(e, k)

\* sefaz.NewClient(cfg): the client key pair cannot be loaded, the
\* certificate directory cannot be listed, or the client is built.
ClientOutcomes == {"ok", "ClientCertError", "CertDirError"}

NewClient(o) ==
  CASE o = "ClientCertError" -> "falha ao carregar chaves PEM"
    [] o = "CertDirError" -> "erro ao carregar CAs da pasta"
    [] o = "ok" -> "nil"

SkipStatus ==
  [Autorizado |-> FALSE, Codigo |-> CodNA,
   Mensagem |-> <<"Consulta SEFAZ nao realizada (--skip-sefaz)">>]

Init ==
  /\ entry \in Entries
  /\ flags \in [xsdOnly : BOOLEAN, skipSefaz : BOOLEAN]
  /\ chaveArg \in ChaveArgs
  /\ entry \notin {"validator", "cli"} => flags = [xsdOnly |-> FALSE, skipSefaz |-> FALSE]
  /\ entry \notin {"ValidarChave", "cli"} => chaveArg = <<>>
  /\ IF KeyMode(entry, chaveArg)
     THEN xdoc = "none" /\ xform = "none"
          /\ flags = [xsdOnly |-> FALSE, skipSefaz |-> FALSE]
     ELSE xdoc \in LogicalDocs /\ xform \in Forms
  /\ pc = StartPhase(entry, chaveArg)
  /\ nfeEnv = ZeroNFeEnvelope
  /\ xchave = <<>>
  /\ result = ZeroResult
  /\ out = [kind |-> "none", nil |-> TRUE, err |-> "nil", exit |-> 0]
  /\ ran = <<>>
  /\ sent = <<>>
  /\ resp = "idle"
  /\ decoded = "idle"
  /\ scode = <<>>
  /\ preds = "idle"
  /\ calls = <<>>
  /\ lib = [init |-> FALSE, gen |-> 0]
  /\ tenv = "idle"
  /\ tst = "idle"
  /\ arg = <<>>
  /\ kop = "idle"
  /\ kerr = "none"
  /\ kprev = <<>>
  /\ kout = [nfe |-> <<>>, validation |-> <<>>, main |-> <<>>]
  /\ ldoc = "idle"
  /\ parsed = "idle"

\* The run ends: a result (or nil) and an error are returned, or a result
\* is printed and the process exits, or the process exits with a log line.
End(kind, isNil, res, err, code) ==
  /\ pc' = "done"
  /\ result' = res
  /\ out' = [kind |-> kind, nil |-> isNil, err |-> err, exit |-> code]

Ran(fase, ok) == ran' = Append(ran, [fase |-> fase, ok |-> ok])

\* os.ReadFile(xmlPath)
ReadFile ==
  /\ pc = "read"
  /\ \E ok \in BOOLEAN :
       /\ Ran("read", ok)
       /\ IF ok
          THEN pc' = "xsd" /\ UNCHANGED <<result, out>>
          ELSE CASE entry = "ValidarXML" ->
                      End("returned", TRUE, ZeroResult, "erro ao ler arquivo XML", 0)
                 [] entry = "cli" ->
                      End("printed", FALSE,
                          [result EXCEPT !.ValidoXSD = FALSE,
                                         !.Erro = "Erro ao ler arquivo XML"], "nil", 1)
                 [] entry = "validator" ->
                      End("printed", FALSE,
                          [ZeroResult EXCEPT !.Erro = "Erro ao ler arquivo XML"], "nil", 0)
                 [] entry = "mock" ->
                      End("printed", FALSE,
                          [ZeroResult EXCEPT !.Erro = "Erro ao ler XML"], "nil", 0)
  /\ UNCHANGED <<entry, flags, xdoc, xform, chaveArg, nfeEnv, xchave, sent, notX>>

\* A slip: no return after a failed schema check.
SchemaCheck_SemRetorno ==
  /\ pc = "xsd"
  /\ \E ok \in { b \in BOOLEAN : b => Render(xdoc, xform).wf } :
       /\ Ran("xsd", ok)
       /\ pc' = "parse"
       /\ result' = [result EXCEPT !.ValidoXSD = ok]
       /\ UNCHANGED out
  /\ UNCHANGED <<entry, flags, xdoc, xform, chaveArg, nfeEnv, xchave, sent, notX>>

\* ValidateWithXSD(xmlData, xsdPath), and the -xsd exit.  The schema is the
\* caller's file: any well-formed document may or may not satisfy it.
SchemaCheck ==
  /\ pc = "xsd"
  /\ \E ok \in { b \in BOOLEAN : b => Render(xdoc, xform).wf } :
       /\ Ran("xsd", ok)
       /\ IF ~ok
          THEN CASE entry \in LibEntries ->
                      End("returned", FALSE,
                          [ZeroResult EXCEPT !.Erro = "falha na validacao XSD"], "nil", 0)
                 [] entry = "cli" ->
                      End("printed", FALSE,
                          [result EXCEPT !.ValidoXSD = FALSE,
                                         !.Erro = "Falha na validacao XSD"], "nil", 1)
                 [] entry \in {"validator", "mock"} ->
                      End("printed", FALSE,
                          [ZeroResult EXCEPT !.Erro = "XML invalido contra XSD"], "nil", 0)
          ELSE CASE entry = "cli" /\ flags.xsdOnly ->
                      End("printed", FALSE, [result EXCEPT !.ValidoXSD = TRUE], "nil", 0)
                 [] entry = "cli" /\ ~flags.xsdOnly ->
                      /\ pc' = "parse"
                      /\ result' = [result EXCEPT !.ValidoXSD = TRUE]
                      /\ UNCHANGED out
                 [] entry = "validator" /\ flags.xsdOnly ->
                      End("printed", FALSE, [ZeroResult EXCEPT !.ValidoXSD = TRUE], "nil", 0)
                 [] OTHER ->
                      pc' = "parse" /\ UNCHANGED <<result, out>>
  /\ UNCHANGED <<entry, flags, xdoc, xform, chaveArg, nfeEnv, xchave, sent, notX>>

\* A slip: the parse error is returned as the error of the call.
Parse_ErroRetornado ==
  /\ pc = "parse"
  /\ LET r == validation_ParseNFe(Render(xdoc, xform))
     IN  /\ Ran("parse", r.err = "nil")
         /\ IF r.err = "nil"
            THEN nfeEnv' = r.nfe /\ pc' = "chave" /\ UNCHANGED <<result, out>>
            ELSE /\ UNCHANGED nfeEnv
                 /\ End(IF entry \in LibEntries THEN "returned" ELSE "printed",
                        entry \in LibEntries, ZeroResult,
                        "falha ao parsear XML: " \o r.err, 0)
  /\ UNCHANGED <<entry, flags, xdoc, xform, chaveArg, xchave, sent, notX>>

\* A slip: the result of a failed parse does not say the schema check passed.
Parse_SemValidoXSD ==
  /\ pc = "parse"
  /\ LET r == validation_ParseNFe(Render(xdoc, xform))
     IN  /\ Ran("parse", r.err = "nil")
         /\ IF r.err = "nil"
            THEN nfeEnv' = r.nfe /\ pc' = "chave" /\ UNCHANGED <<result, out>>
            ELSE /\ UNCHANGED nfeEnv
                 /\ End(IF entry \in LibEntries THEN "returned" ELSE "printed", FALSE,
                        [ZeroResult EXCEPT !.Erro = "falha ao parsear XML: " \o r.err],
                        "nil", 0)
  /\ UNCHANGED <<entry, flags, xdoc, xform, chaveArg, xchave, sent, notX>>

\* validation.ParseNFe(xmlData); parseNFe(xmlBytes) in main.go
Parse ==
  /\ pc = "parse"
  /\ LET r == IF entry = "mock" THEN parseNFe(Render(xdoc, xform))
              ELSE validation_ParseNFe(Render(xdoc, xform))
     IN  /\ Ran("parse", r.err = "nil")
         /\ IF r.err = "nil"
            THEN nfeEnv' = r.nfe /\ pc' = "chave" /\ UNCHANGED <<result, out>>
            ELSE /\ UNCHANGED nfeEnv
                 /\ CASE entry \in LibEntries ->
                           End("returned", FALSE,
                               [ZeroResult EXCEPT !.ValidoXSD = TRUE,
                                   !.Erro = "falha ao parsear XML: " \o r.err], "nil", 0)
                      [] entry = "cli" ->
                           End("printed", FALSE,
                               [result EXCEPT !.Erro = "Falha ao parsear XML: " \o r.err],
                               "nil", 1)
                      [] entry = "validator" ->
                           End("printed", FALSE,
                               [ZeroResult EXCEPT !.ValidoXSD = TRUE,
                                   !.Erro = "Erro ao estruturar NFe (Parse): " \o r.err],
                               "nil", 0)
                      [] entry = "mock" ->
                           End("printed", FALSE,
                               [ZeroResult EXCEPT !.ValidoXSD = TRUE,
                                   !.Erro = "Erro ao parsear NFe: " \o r.err], "nil", 0)
  /\ UNCHANGED <<entry, flags, xdoc, xform, chaveArg, xchave, sent, notX>>

\* Key derivation from nfe.InfNFe.ID, the assembly of the extracted fields
\* and the -skip-sefaz exit.
DeriveKey ==
  /\ pc = "chave"
  /\ LET id == nfeEnv.InfNFe.ID
         k == IF entry = "mock" THEN extractChaveFromID(id)
              ELSE validation_ExtractChaveFromID(id)
         orId == IF k = <<>> THEN id ELSE k
         r1 == WithDados([result EXCEPT !.ChaveAcesso = orId],
                         convertInternalNFeData(nfeEnv))
     IN  /\ Ran("chave", k # <<>>)
         /\ CASE entry \in LibEntries ->
                   xchave' = orId /\ pc' = "sefaz" /\ UNCHANGED <<result, out>>
              [] entry = "cli" ->
                   /\ xchave' = orId
                   /\ IF flags.skipSefaz
                      THEN End("printed", FALSE, WithStatus(r1, SkipStatus), "nil", 0)
                      ELSE pc' = "client" /\ result' = r1 /\ UNCHANGED out
              [] entry = "validator" ->
                   /\ xchave' = k
                   /\ IF k = <<>>
                      THEN End("printed", FALSE,
                               [ZeroResult EXCEPT !.ValidoXSD = TRUE,
                                   !.Erro = "Chave de acesso nao encontrada no XML (infNFe/@Id)"],
                               "nil", 0)
                      ELSE IF flags.skipSefaz
                      THEN End("printed", FALSE,
                               WithDados(WithStatus([ZeroResult EXCEPT !.ChaveAcesso = k,
                                                                       !.ValidoXSD = TRUE],
                                                    SkipStatus),
                                         DadosSoDigitos(nfeEnv)),
                               "nil", 0)
                      ELSE pc' = "client" /\ UNCHANGED <<result, out>>
              [] entry = "mock" ->
                   xchave' = k /\ pc' = "sefaz" /\ UNCHANGED <<result, out>>
  /\ UNCHANGED <<entry, flags, xdoc, xform, chaveArg, nfeEnv, sent, notX>>

\* The format test of a query by key: ValidarChave and validateByChave.
CheckChave ==
  /\ pc = "formato"
  /\ LET ok == IF entry = "cli"
               THEN Len(chaveArg) = KeyLen /\ Len(OnlyDigits(chaveArg)) = KeyLen
               ELSE Len(OnlyDigits(chaveArg)) = KeyLen
     IN  /\ Ran("formato", ok)
         /\ IF ok
            THEN /\ xchave' = chaveArg
                 /\ pc' = IF entry = "cli" THEN "client" ELSE "sefaz"
                 /\ UNCHANGED <<result, out>>
            ELSE /\ UNCHANGED xchave
                 /\ IF entry = "cli"
                    THEN End("fatal", TRUE, ZeroResult, "nil", 1)
                    ELSE End("returned", TRUE, ZeroResult,
                             "chave de acesso invalida: deve ter 44 digitos", 0)
  /\ UNCHANGED <<entry, flags, xdoc, xform, chaveArg, nfeEnv, sent, notX>>

\* nfe.NewClient(cfg) before the methods of Client, and sefaz.NewClient(cfg)
\* in the mains: the client certificate and the trust store.
SetupClient ==
  /\ pc = "client"
  /\ \E o \in ClientOutcomes :
       LET err == NewClient(o)
       IN  /\ Ran("client", err = "nil")
           /\ IF err = "nil"
              THEN /\ pc' = IF entry \in {"validator", "cli"} THEN "sefaz"
                            ELSE FirstPhase(entry, chaveArg)
                   /\ UNCHANGED <<result, out>>
              ELSE CASE entry \in {"ValidarXML", "ValidarXMLBytes", "ValidarChave"} ->
                          End("returned", TRUE, ZeroResult,
                              "falha ao criar cliente SEFAZ: " \o err, 0)
                     [] entry = "validator" ->
                          End("printed", FALSE,
                              WithDados([ZeroResult EXCEPT !.ChaveAcesso = xchave,
                                            !.ValidoXSD = TRUE,
                                            !.Erro = "Falha na configuracao mTLS (Certificados): "
                                                     \o err],
                                        DadosSoDigitos(nfeEnv)),
                              "nil", 0)
                     [] entry = "cli" /\ chaveArg = <<>> ->
                          End("printed", FALSE,
                              [result EXCEPT
                                 !.Erro = "Falha ao configurar cliente SEFAZ: " \o err],
                              "nil", 1)
                     [] entry = "cli" /\ chaveArg # <<>> ->
                          End("fatal", TRUE, ZeroResult, "nil", 1)
  /\ UNCHANGED <<entry, flags, xdoc, xform, chaveArg, nfeEnv, xchave, sent, notX>>

\* ConsultaSituacaoNFe(chave) and the result built from what it returned.
\* A request that could not be built is not sent.
Query ==
  /\ pc = "sefaz"
  /\ entry # "mock"
  /\ \E o \in Outcomes :
       LET q == ConsultaSituacaoNFe(xchave, o)
           ok == q.err = "nil"
           base == [ZeroResult EXCEPT !.ChaveAcesso = xchave]
           valid == [base EXCEPT !.ValidoXSD = TRUE]
       IN  /\ Ran("sefaz", ok)
           /\ sent' = IF o.kind = "reqErr" THEN sent ELSE Append(sent, xchave)
           /\ CASE entry \in LibEntries /\ ok ->
                     End("returned", FALSE,
                         WithDados(WithStatus(valid, q.status),
                                   convertInternalNFeData(nfeEnv)), "nil", 0)
                [] entry \in LibEntries /\ ~ok ->
                     End("returned", FALSE,
                         WithDados([valid EXCEPT !.Erro = "falha na consulta SEFAZ: " \o q.err],
                                   convertInternalNFeData(nfeEnv)), "nil", 0)
                [] entry = "ValidarChave" /\ ok ->
                     End("returned", FALSE, WithStatus(base, q.status), "nil", 0)
                [] entry = "ValidarChave" /\ ~ok ->
                     End("returned", FALSE,
                         [base EXCEPT !.Erro = "falha na consulta SEFAZ: " \o q.err],
                         "nil", 0)
                [] entry = "validator" /\ ok ->
                     End("printed", FALSE,
                         WithDados(WithStatus(valid, q.status), DadosSoDigitos(nfeEnv)),
                         "nil", 0)
                [] entry = "validator" /\ ~ok ->
                     End("printed", FALSE,
                         WithDados([valid EXCEPT
                                      !.Erro = "Falha na comunicacao com a SEFAZ: " \o q.err],
                                   DadosSoDigitos(nfeEnv)), "nil", 0)
                [] entry = "cli" /\ chaveArg = <<>> /\ ok ->
                     End("printed", FALSE, WithStatus(result, q.status), "nil", 0)
                [] entry = "cli" /\ chaveArg = <<>> /\ ~ok ->
                     End("printed", FALSE,
                         WithStatus([result EXCEPT
                                       !.Erro = "Falha na consulta remota: " \o q.err],
                                    ZeroSefazStatus), "nil", 1)
                [] entry = "cli" /\ chaveArg # <<>> /\ ok ->
                     End("printed", FALSE, WithStatus(base, q.status), "nil", 0)
                [] entry = "cli" /\ chaveArg # <<>> /\ ~ok ->
                     End("printed", FALSE,
                         WithStatus([base EXCEPT !.Erro = "Falha na consulta: " \o q.err],
                                    [Autorizado |-> FALSE, Codigo |-> Cod999,
                                     Mensagem |-> <<"Erro na consulta">>]), "nil", 1)
  /\ UNCHANGED <<entry, flags, xdoc, xform, chaveArg, nfeEnv, xchave, notX>>

\* consultarSefazMock(chave) and the response of main.go: nothing is sent.
MockQuery ==
  /\ pc = "sefaz"
  /\ entry = "mock"
  /\ Ran("mock", TRUE)
  /\ End("printed", FALSE,
         WithDados(WithStatus([ZeroResult EXCEPT !.ChaveAcesso = xchave,
                                                 !.ValidoXSD = TRUE],
                              consultarSefazMock(xchave)),
                   DadosSoDigitos(nfeEnv)),
         "nil", 0)
  /\ UNCHANGED <<entry, flags, xdoc, xform, chaveArg, nfeEnv, xchave, sent, notX>>

Next ==
  \/ ReadFile
  \/ SchemaCheck
  \/ Parse
  \/ DeriveKey
  \/ CheckChave
  \/ SetupClient
  \/ Query
  \/ MockQuery

Spec == Init /\ [][Next]_vars

\* Every step of a run is a call that returns (the query within the 15 s
\* of the client's timeout): a run that can take a step takes it.
\* The steps a run takes do not depend on the model or the recipient of
\* the document.
LiveDocs ==
  { d \in LogicalDocs : d.mod = Txt55 /\ d.dest = [CNPJ |-> TxtCNPJ, CPF |-> <<>>] }

InitLive ==
  /\ entry \in Entries
  /\ flags \in [xsdOnly : BOOLEAN, skipSefaz : BOOLEAN]
  /\ chaveArg \in ChaveArgs
  /\ entry \notin {"validator", "cli"} => flags = [xsdOnly |-> FALSE, skipSefaz |-> FALSE]
  /\ entry \notin {"ValidarChave", "cli"} => chaveArg = <<>>
  /\ IF KeyMode(entry, chaveArg)
     THEN xdoc = "none" /\ xform = "none"
          /\ flags = [xsdOnly |-> FALSE, skipSefaz |-> FALSE]
     ELSE xdoc \in LiveDocs /\ xform \in Forms
  /\ pc = StartPhase(entry, chaveArg)
  /\ nfeEnv = ZeroNFeEnvelope
  /\ xchave = <<>>
  /\ result = ZeroResult
  /\ out = [kind |-> "none", nil |-> TRUE, err |-> "nil", exit |-> 0]
  /\ ran = <<>>
  /\ sent = <<>>
  /\ resp = "idle"
  /\ decoded = "idle"
  /\ scode = <<>>
  /\ preds = "idle"
  /\ calls = <<>>
  /\ lib = [init |-> FALSE, gen |-> 0]
  /\ tenv = "idle"
  /\ tst = "idle"
  /\ arg = <<>>
  /\ kop = "idle"
  /\ kerr = "none"
  /\ kprev = <<>>
  /\ kout = [nfe |-> <<>>, validation |-> <<>>, main |-> <<>>]
  /\ ldoc = "idle"
  /\ parsed = "idle"

SpecLive == InitLive /\ [][Next]_vars /\ WF_vars(Next)

-----------------------------------------------------------------------------
(* The decoder and the status predicates as a state machine: one outcome   *)
(* of the network for one call of ConsultaSituacaoNFe, or one status code  *)
(* for the predicates; after a call its code is what the predicates get.   *)

Junk == { <<>>, <<"x">>, <<"\n">> }

DCodes ==
  { Cod100, Cod110, Cod101, Cod102, Cod217, Cod999, <<"1">>, <<"1", "0">>,
    <<"1", "0", "0", "0">>, <<"0", "1", "0", "0">>, <<"1", "1", "0", "0">>,
    <<"5", "3", "9">> }

CStatParts ==
  { <<TagCStat>> \o c \o <<TagCStatEnd>> : c \in DCodes } \cup
  { <<>>,
    <<TagCStat, TagCStatEnd>>,
    <<TagCStat, "1", "x", "0", TagCStatEnd>>,
    <<TagCStat, "1", "0", "0">>,
    <<"1", "0", "0", TagCStatEnd>>,
    <<TagCStat, "x", TagCStatEnd, TagCStat, "1", "0", "1", TagCStatEnd>> }

XMotivoParts ==
  { <<>>,
    <<TagXMotivo, "A", "b", TagXMotivoEnd>>,
    <<TagXMotivo, "Autorizado o uso da NF-e", TagXMotivoEnd>>,
    <<TagXMotivo, TagXMotivoEnd>>,
    <<TagXMotivo, "A", "\n", "b", TagXMotivoEnd>>,
    <<TagXMotivo, "A">>,
    <<"A", TagXMotivoEnd>>,
    <<TagXMotivoEnd, TagXMotivo, "A", TagXMotivoEnd>>,
    <<TagXMotivo, "A", TagXMotivoEnd, TagXMotivo, "B", TagXMotivoEnd>>,
    <<TagXMotivo, "A", TagXMotivo, "B", TagXMotivoEnd>>,
    <<TagXMotivo, "A", "\n", TagXMotivoEnd, TagXMotivo, "B", TagXMotivoEnd>>,
    <<TagXMotivo, "A", "\n", TagXMotivo, "B", "\n", TagXMotivoEnd>> }

DBodies ==
  { pre \o c \o m \o post :
      pre \in Junk, c \in CStatParts, m \in XMotivoParts, post \in Junk } \cup
  { pre \o m \o c \o post :
      pre \in Junk, c \in CStatParts, m \in XMotivoParts, post \in Junk }

DOutcomes ==
  { [kind |-> k, body |-> <<>>] : k \in {"reqErr", "connErr", "readErr"} } \cup
  { [kind |-> "body", body |-> b] : b \in DBodies }

NoOutcome == [kind |-> "none", body |-> <<>>]

CodeInputs ==
  DCodes \cup
  { <<>>, CodNA, <<"2">>, <<"3">>, <<"6">>, <<"7">>, <<"3", "0", "1">>,
    <<"3", "9", "9">>, <<"3", "A">>, <<"4", "0", "4">>, <<"6", "5", "6">>,
    <<"7", "0", "0">>, <<" ", "3">>, <<"xC3", "xA9">>, <<"A", "3">> }

NoPreds ==
  [done |-> FALSE, IsAutorizado |-> FALSE, IsCancelado |-> FALSE,
   IsDenegado |-> FALSE, IsNaoEncontrado |-> FALSE, IsRejeitado |-> FALSE,
   IsValido |-> FALSE]

NotDecoded == [done |-> FALSE, status |-> ZeroSefazStatus, err |-> "nil"]

DInit ==
  /\ \/ resp \in DOutcomes /\ scode = <<>>
     \/ resp = NoOutcome /\ scode \in CodeInputs
  /\ decoded = NotDecoded
  /\ preds = NoPreds
  /\ arg = <<>>
  /\ kop = "idle"
  /\ kerr = "none"
  /\ kprev = <<>>
  /\ kout = [nfe |-> <<>>, validation |-> <<>>, main |-> <<>>]
  /\ ldoc = "idle"
  /\ parsed = "idle"
  /\ entry = "idle"
  /\ flags = [xsdOnly |-> FALSE, skipSefaz |-> FALSE]
  /\ xdoc = "idle"
  /\ xform = "idle"
  /\ chaveArg = <<>>
  /\ pc = "idle"
  /\ nfeEnv = ZeroNFeEnvelope
  /\ xchave = <<>>
  /\ result = ZeroResult
  /\ out = [kind |-> "none", nil |-> TRUE, err |-> "nil", exit |-> 0]
  /\ ran = <<>>
  /\ sent = <<>>
  /\ calls = <<>>
  /\ lib = [init |-> FALSE, gen |-> 0]
  /\ tenv = "idle"
  /\ tst = "idle"

\* One call of ConsultaSituacaoNFe; the code it returned becomes the code
\* of the StatusSefaz (client.go copies Codigo into Status).
CallConsultaSituacaoNFe ==
  /\ resp # NoOutcome
  /\ ~decoded.done
  /\ LET q == ConsultaSituacaoNFe(RefKey, resp)
     IN  /\ decoded' = [done |-> TRUE, status |-> q.status, err |-> q.err]
         /\ scode' = q.status.Codigo
  /\ UNCHANGED <<resp, preds, notD>>

\* The methods of StatusSefaz on one code.
CallStatusPredicates ==
  /\ resp = NoOutcome \/ decoded.done
  /\ ~preds.done
  /\ preds' = [done |-> TRUE,
               IsAutorizado |-> IsAutorizado(scode),
               IsCancelado |-> IsCancelado(scode),
               IsDenegado |-> IsDenegado(scode),
               IsNaoEncontrado |-> IsNaoEncontrado(scode),
               IsRejeitado |-> IsRejeitado(scode),
               IsValido |-> IsValido(scode)]
  /\ UNCHANGED <<resp, decoded, scode, notD>>

DNext == CallConsultaSituacaoNFe \/ CallStatusPredicates

SpecSefaz == DInit /\ [][DNext]_vars

-----------------------------------------------------------------------------
(* ValidateWithXSD called concurrently (pkg/nfe/validator.go,              *)
(* internal/validation/validator.go).  Each call initialises the schema    *)
(* library, loads the schema, validates the document and, on return,       *)
(* frees the schema and cleans the library up; the library is one per      *)
(* process.  Of the library: Init on an initialised library reports an     *)
(* error (which the code ignores) and changes nothing; loading a schema    *)
(* or validating on a library that is not initialised reports an error;    *)
(* Cleanup releases what every schema loaded so far rests on, so the use   *)
(* of such a schema afterwards is undefined.                               *)

NCalls == 2
CallIds == 1..NCalls

CallInputs == {"semXSD", "invalido", "valido"}

\* What ValidateWithXSD returns for an input when it runs alone.
Alone(in) ==
  CASE in = "semXSD" -> "arquivo XSD nao encontrado"
    [] in = "invalido" -> "falha na validacao XSD"
    [] in = "valido" -> "nil"

CInit ==
  /\ calls \in [CallIds -> { [in |-> i, pc |-> "stat", ret |-> "pending", hgen |-> 0] :
                               i \in CallInputs }]
  /\ lib = [init |-> FALSE, gen |-> 0]
  /\ tenv = "idle"
  /\ tst = "idle"
  /\ arg = <<>>
  /\ kop = "idle"
  /\ kerr = "none"
  /\ kprev = <<>>
  /\ kout = [nfe |-> <<>>, validation |-> <<>>, main |-> <<>>]
  /\ ldoc = "idle"
  /\ parsed = "idle"
  /\ entry = "idle"
  /\ flags = [xsdOnly |-> FALSE, skipSefaz |-> FALSE]
  /\ xdoc = "idle"
  /\ xform = "idle"
  /\ chaveArg = <<>>
  /\ pc = "idle"
  /\ nfeEnv = ZeroNFeEnvelope
  /\ xchave = <<>>
  /\ result = ZeroResult
  /\ out = [kind |-> "none", nil |-> TRUE, err |-> "nil", exit |-> 0]
  /\ ran = <<>>
  /\ sent = <<>>
  /\ resp = "idle"
  /\ decoded = "idle"
  /\ scode = <<>>
  /\ preds = "idle"

\* os.Stat(schemaPath)
XsdStat(g) ==
  /\ calls[g].pc = "stat"
  /\ calls' = [calls EXCEPT ![g] =
                 IF calls[g].in = "semXSD"
                 THEN [@ EXCEPT !.pc = "done", !.ret = Alone("semXSD")]
                 ELSE [@ EXCEPT !.pc = "init"]]
  /\ UNCHANGED <<lib, notC>>

\* xsdvalidate.Init(); defer xsdvalidate.Cleanup()
XsdInit(g) ==
  /\ calls[g].pc = "init"
  /\ lib' = [lib EXCEPT !.init = TRUE]
  /\ calls' = [calls EXCEPT ![g].pc = "handler"]
  /\ UNCHANGED notC

\* xsdvalidate.NewXsdHandlerUrl(schemaPath, ...); defer xsdHandler.Free()
XsdNewHandler(g) ==
  /\ calls[g].pc = "handler"
  /\ calls' = [calls EXCEPT ![g] =
                 IF lib.init
                 THEN [@ EXCEPT !.pc = "validate", !.hgen = lib.gen]
                 ELSE [@ EXCEPT !.pc = "cleanup", !.ret = "erro ao carregar XSD"]]
  /\ UNCHANGED <<lib, notC>>

\* xsdHandler.ValidateMem(xmlData, ...) and the error it is turned into.
\* On a schema that a Cleanup has released the behaviour is undefined.
XsdValidateMem(g) ==
  /\ calls[g].pc = "validate"
  /\ \E r \in IF lib.init /\ calls[g].hgen = lib.gen
              THEN {Alone(calls[g].in)}
              ELSE IF ~lib.init
              THEN {"erro de validacao XSD", "crash"}
              ELSE {"nil", "falha na validacao XSD", "erro de validacao XSD", "crash"} :
       calls' = [calls EXCEPT ![g] = [@ EXCEPT !.pc = "free", !.ret = r]]
  /\ UNCHANGED <<lib, notC>>

\* the deferred xsdHandler.Free()
XsdFree(g) ==
  /\ calls[g].pc = "free"
  /\ calls' = [calls EXCEPT ![g].pc = "cleanup"]
  /\ UNCHANGED <<lib, notC>>

\* the deferred xsdvalidate.Cleanup(), and the return
XsdCleanup(g) ==
  /\ calls[g].pc = "cleanup"
  /\ lib' = [init |-> FALSE, gen |-> lib.gen + 1]
  /\ calls' = [calls EXCEPT ![g].pc = "done"]
  /\ UNCHANGED notC

CNext ==
  \E g \in CallIds :
     \/ XsdStat(g)
     \/ XsdInit(g)
     \/ XsdNewHandler(g)
     \/ XsdValidateMem(g)
     \/ XsdFree(g)
     \/ XsdCleanup(g)

SpecConc == CInit /\ [][CNext]_vars

-----------------------------------------------------------------------------
(* internal/sefaz: NewClient and loadCertsFromDir, the trust store.        *)
(*                                                                         *)
(* A run of sefaz.NewClient(cfg) on one certificate directory.  os.ReadDir *)
(* returns the entries sorted by file name.  Of a file only what           *)
(* os.ReadFile and CertPool.AppendCertsFromPEM make of it matters:         *)
(* AppendCertsFromPEM adds every CERTIFICATE block that parses, passes     *)
(* over every other block, and reports whether it added any.               *)

\* strings.HasSuffix
HasSuffix(s, suf) ==
  Len(s) >= Len(suf) /\ SubSeq(s, Len(s) - Len(suf) + 1, Len(s)) = suf

\* strings.Contains
Contains(s, sub) ==
  \E i \in 1..(Len(s) - Len(sub) + 1) : SubSeq(s, i, i + Len(sub) - 1) = sub

LitKeyPem == <<"k", "e", "y", ".", "p", "e", "m">>
ExtCrt == <<".", "c", "r", "t">>
ExtPem == <<".", "p", "e", "m">>

\* The file names of the model, in the order of os.ReadDir (byte order):
\* a.crt, a.pem.bak, b.pem, k.pem, key.pem, xkey.pem
NameOrder ==
  << <<"a">> \o ExtCrt,
     <<"a">> \o ExtPem \o <<".", "b", "a", "k">>,
     <<"b">> \o ExtPem,
     <<"k">> \o ExtPem,
     LitKeyPem,
     <<"x">> \o LitKeyPem >>

\* cfg.CertKeyFile
KeyFileNames == { LitKeyPem, <<"k">> \o ExtPem }

\* An entry is a directory, a file that cannot be read, a file with a
\* certificate, or a file without any (a private key, a damaged file).
Kinds == {"dir", "unreadable", "cert", "nocert"}

MaxEntries == 4

\* The entries of a directory that holds the names picked by S, sorted.
EntriesOf(S, k) ==
  [ i \in 1..Cardinality(S) |->
      LET j == CHOOSE j \in S : Cardinality({ m \in S : m < j }) = i - 1
      IN  [name |-> NameOrder[j], kind |-> k[j]] ]

Directories ==
  UNION { { EntriesOf(S, k) : k \in [S -> Kinds] } :
            S \in { T \in SUBSET (1..Len(NameOrder)) : Cardinality(T) <= MaxEntries } }

\* The key pair loads only from a key file that is there and can be read.
TrustEnvs ==
  { e \in [CertKeyFile : KeyFileNames, keyPair : BOOLEAN, sysPool : BOOLEAN,
           listable : BOOLEAN, entries : Directories] :
      /\ e.keyPair =>
           \E i \in 1..Len(e.entries) :
              /\ e.entries[i].name = e.CertKeyFile
              /\ e.entries[i].kind = "nocert" }

EmptyPool == [sys |-> FALSE, added |-> {}]

TInit ==
  /\ tenv \in TrustEnvs
  /\ tst = [pc |-> "keypair", i |-> 1, pool |-> EmptyPool, warns |-> <<>>,
            tried |-> <<>>, ret |-> "pending"]
  /\ arg = <<>>
  /\ kop = "idle"
  /\ kerr = "none"
  /\ kprev = <<>>
  /\ kout = [nfe |-> <<>>, validation |-> <<>>, main |-> <<>>]
  /\ ldoc = "idle"
  /\ parsed = "idle"
  /\ entry = "idle"
  /\ flags = [xsdOnly |-> FALSE, skipSefaz |-> FALSE]
  /\ xdoc = "idle"
  /\ xform = "idle"
  /\ chaveArg = <<>>
  /\ pc = "idle"
  /\ nfeEnv = ZeroNFeEnvelope
  /\ xchave = <<>>
  /\ result = ZeroResult
  /\ out = [kind |-> "none", nil |-> TRUE, err |-> "nil", exit |-> 0]
  /\ ran = <<>>
  /\ sent = <<>>
  /\ resp = "idle"
  /\ decoded = "idle"
  /\ scode = <<>>
  /\ preds = "idle"
  /\ calls = <<>>
  /\ lib = [init |-> FALSE, gen |-> 0]

\* tls.LoadX509KeyPair(certPath, keyPath)
LoadKeyPair ==
  /\ tst.pc = "keypair"
  /\ tst' = IF tenv.keyPair
            THEN [tst EXCEPT !.pc = "syspool"]
            ELSE [tst EXCEPT !.pc = "done", !.ret = NewClient("ClientCertError")]
  /\ UNCHANGED <<tenv, notT>>

\* x509.SystemCertPool(), or x509.NewCertPool() with a warning
SystemPool ==
  /\ tst.pc = "syspool"
  /\ tst' = IF tenv.sysPool
            THEN [tst EXCEPT !.pc = "readdir", !.pool = [sys |-> TRUE, added |-> {}]]
            ELSE [tst EXCEPT !.pc = "readdir", !.pool = EmptyPool,
                             !.warns = Append(@, [name |-> <<>>, why |-> "SystemCertPool"])]
  /\ UNCHANGED <<tenv, notT>>

\* os.ReadDir(dir) in loadCertsFromDir, and the error NewClient makes of it
ReadDir ==
  /\ tst.pc = "readdir"
  /\ tst' = IF tenv.listable
            THEN [tst EXCEPT !.pc = "entry", !.i = 1]
            ELSE [tst EXCEPT !.pc = "done", !.ret = NewClient("CertDirError")]
  /\ UNCHANGED <<tenv, notT>>

\* A slip: a file that cannot be read ends the scan with its error.
LoadEntry_Aborta ==
  /\ tst.pc = "entry"
  /\ tst.i <= Len(tenv.entries)
  /\ LET e == tenv.entries[tst.i]
         t == [tst EXCEPT !.i = @ + 1]
     IN  tst' =
           IF e.kind = "dir" \/ Contains(e.name, LitKeyPem) THEN t
           ELSE IF HasSuffix(e.name, ExtCrt) \/ HasSuffix(e.name, ExtPem)
           THEN IF e.kind = "unreadable"
                THEN [tst EXCEPT !.pc = "done", !.tried = Append(@, e.name),
                                 !.ret = NewClient("CertDirError")]
                ELSE IF e.kind = "cert"
                THEN [t EXCEPT !.tried = Append(@, e.name),
                               !.pool.added = @ \cup {e.name}]
                ELSE [t EXCEPT !.tried = Append(@, e.name),
                               !.warns = Append(@, [name |-> e.name, why |-> "formato"])]
           ELSE t
  /\ UNCHANGED <<tenv, notT>>

\* One turn of the loop of loadCertsFromDir, on entry i.
LoadEntry ==
  /\ tst.pc = "entry"
  /\ tst.i <= Len(tenv.entries)
  /\ LET e == tenv.entries[tst.i]
         t == [tst EXCEPT !.i = @ + 1]
     IN  tst' =
           IF e.kind = "dir" \/ Contains(e.name, LitKeyPem) THEN t
           ELSE IF HasSuffix(e.name, ExtCrt) \/ HasSuffix(e.name, ExtPem)
           THEN IF e.kind = "unreadable"
                THEN [t EXCEPT !.tried = Append(@, e.name),
                               !.warns = Append(@, [name |-> e.name, why |-> "ler"])]
                ELSE IF e.kind = "cert"
                THEN [t EXCEPT !.tried = Append(@, e.name),
                               !.pool.added = @ \cup {e.name}]
                ELSE [t EXCEPT !.tried = Append(@, e.name),
                               !.warns = Append(@, [name |-> e.name, why |-> "formato"])]
           ELSE t
  /\ UNCHANGED <<tenv, notT>>

\* The end of the loop: loadCertsFromDir returns nil and NewClient builds
\* the client around the pool.
BuildClient ==
  /\ tst.pc = "entry"
  /\ tst.i > Len(tenv.entries)
  /\ tst' = [tst EXCEPT !.pc = "done", !.ret = NewClient("ok")]
  /\ UNCHANGED <<tenv, notT>>

TNext ==
  \/ LoadKeyPair
  \/ SystemPool
  \/ ReadDir
  \/ LoadEntry
  \/ BuildClient

SpecTrust == TInit /\ [][TNext]_vars

-----------------------------------------------------------------------------
(* The properties of the access-key functions.                             *)

Is44Digits(s) == Len(s) = 44 /\ \A i \in 1..44 : s[i] \in Digits

\* The reference computation of the check digit, stated position by
\* position: the j-th digit from the right of the 43 has weight
\* 2, 3, ..., 9, 2, 3, ...
DigitSeq == <<"0", "1", "2", "3", "4", "5", "6", "7", "8", "9">>
DigitValue(c) == (CHOOSE k \in 1..10 : DigitSeq[k] = c) - 1
RefWeight(j) == 2 + ((j - 1) % 8)
RECURSIVE RefSumFrom(_, _)
RefSumFrom(s, i) ==
  IF i > 43 THEN 0
  ELSE DigitValue(s[i]) * RefWeight(43 - i + 1) + RefSumFrom(s, i + 1)
RefRemainder(s) == RefSumFrom(s, 1) % 11
RefCheckDigit(s) ==
  IF RefRemainder(s) \in {0, 1} THEN 0 ELSE 11 - RefRemainder(s)

\* C4: on every string of exactly 44 digits ValidarChaveAcesso succeeds iff
\* the 44th digit is the modulo-11 check digit of the first 43 (weights 2..9
\* cycling, from the right; digit 0 for remainder 0 or 1, else 11 - r); the
\* key 35250732409620000175550010000037471011544648, whose check digit is 8
\* by that computation, is accepted.
C4_CheckDigitIsReference ==
  (kop \in {"validar", "flip"} /\ Is44Digits(arg)) =>
     /\ (kerr = "ok") <=> (DigitValue(arg[44]) = RefCheckDigit(arg))
     /\ kerr \in {"ok", ErrDV}
     /\ (arg = RefKey => RefCheckDigit(arg) = 8 /\ kerr = "ok")

\* The validator ran on 44 digits whose remainder is 1 (expected digit 0)
\* and accepted them.
C4_Witness ==
  /\ kop = "validar" /\ Is44Digits(arg)
  /\ RefRemainder(arg) = 1 /\ arg[44] = "0" /\ kerr = "ok"

\* C5: an accepted 44-digit key with its last digit replaced by any other
\* digit is rejected with the check-digit error, not with a format error.
C5_FlipLastDigitRejected ==
  kop = "flip" => kerr = ErrDV

C5_Witness ==
  kop = "flip" /\ kprev = RefKey /\ arg # RefKey /\ kerr = ErrDV

\* C6: an input whose trimmed form is not exactly 44 ASCII digits fails
\* with a format error; the check-digit error is returned only for inputs
\* whose trimmed form is exactly 44 ASCII digits.
C6_FormatErrorBeforeCheckDigit ==
  kop \in {"validar", "flip"} =>
     /\ ~Is44Digits(TrimSpace(arg)) => kerr \in {ErrTamanho, ErrNumeros}
     /\ kerr = ErrDV => Is44Digits(TrimSpace(arg))

\* The validator ran on 44 bytes that are 42 digits and a two-byte rune.
C6_Witness ==
  /\ kop = "validar" /\ Len(arg) = 44 /\ arg[43] = "xC3"
  /\ kerr = ErrNumeros

\* C7: the key derived from any identifier is empty or exactly 44 digits
\* (all three implementations).
C7_DerivedKeyEmptyOr44Digits ==
  kop = "extract" =>
     /\ kout.nfe = <<>> \/ Is44Digits(kout.nfe)
     /\ kout.validation = <<>> \/ Is44Digits(kout.validation)

EndsInSpace(s) ==
  /\ s # <<>>
  /\ \/ s[Len(s)] \in AsciiSpace
     \/ Len(s) >= 2 /\ SubSeq(s, Len(s) - 1, Len(s)) = NBSP

\* C8 as stated: every identifier of length 47 that begins with NFe derives
\* exactly its last 44 bytes.
C8_Prefix47DerivesLast44 ==
  (kop = "extract" /\ Len(arg) = 47 /\ HasPrefix(arg, NFePrefix)) =>
     /\ kout.nfe = SubSeq(arg, 4, 47)
     /\ kout.validation = SubSeq(arg, 4, 47)

\* C8 amended: every identifier of length 47 that begins with NFe and does
\* not end in white space derives exactly its last 44 bytes, unchanged; the
\* identifier NFe35250732409620000175550010000037471011544648 derives
\* 35250732409620000175550010000037471011544648.
C8_Prefix47NoTrailingSpaceDerivesLast44 ==
  /\ (kop = "extract" /\ Len(arg) = 47 /\ HasPrefix(arg, NFePrefix)
        /\ ~EndsInSpace(arg)) =>
       /\ kout.nfe = SubSeq(arg, 4, 47)
       /\ kout.validation = SubSeq(arg, 4, 47)
  /\ (kop = "extract" /\ arg = NFePrefix \o RefKey) =>
       /\ kout.nfe = RefKey
       /\ kout.validation = RefKey

C8_Witness ==
  /\ kop = "extract" /\ arg = NFePrefix \o RefKey
  /\ kout.validation = RefKey

-----------------------------------------------------------------------------
(* The properties of the parser.                                           *)

\* C9: a well-formed document whose identifier attribute is present but
\* empty fails with the missing-identifier error, in the enveloped form and
\* in the bare form.
C9_EmptyIdIsMissingIdentifier ==
  \A f \in {"enveloped", "bare"} :
    (parsed[f].done /\ ldoc.hasId /\ ldoc.id = <<>>) =>
       /\ parsed[f].nfe.err = ErrIdNaoEncontradoNoXML
       /\ parsed[f].validation.err = ErrIdNaoEncontrado

\* The bare form of a document with an empty identifier was parsed and the
\* missing-identifier error returned.
C9_Witness ==
  /\ ldoc.hasId /\ ldoc.id = <<>>
  /\ parsed["bare"].done
  /\ parsed["bare"].nfe.err = ErrIdNaoEncontradoNoXML
  /\ parsed["bare"].validation.err = ErrIdNaoEncontrado

\* C10: for a logical document with a non-empty identifier ParseNFe
\* succeeds on the enveloped form and on the bare form, and the two results
\* carry the same identifier and the same extracted fields.
C10_EnvelopedAndBareParseAlike ==
  (ldoc.hasId /\ ldoc.id # <<>>) =>
     /\ \A f \in {"enveloped", "bare"} :
          parsed[f].done => parsed[f].nfe.err = "nil" /\ parsed[f].parsear.ok
     /\ (parsed["enveloped"].done /\ parsed["bare"].done) =>
          /\ parsed["enveloped"].nfe.nfe.InfNFe.ID = parsed["bare"].nfe.nfe.InfNFe.ID
          /\ parsed["enveloped"].parsear.dados = parsed["bare"].parsear.dados

\* Both forms of a document with a blank CNPJ and a CPF were parsed; the
\* recipient id is the CPF.
C10_Witness ==
  /\ ldoc.hasId /\ ldoc.id = NFePrefix \o RefKey
  /\ ldoc.dest = [CNPJ |-> <<" ">>, CPF |-> TxtCPF]
  /\ parsed["enveloped"].done /\ parsed["bare"].done
  /\ parsed["enveloped"].parsear.dados.Destinatario.Documento = TxtCPF
  /\ parsed["bare"].parsear.dados.ValorTotal = <<"1", "9", "9", ".", "9", "0">>
  /\ parsed["bare"].nfe.nfe.InfNFe.ID = ldoc.id


-----------------------------------------------------------------------------
(* The properties of the pipelines.                                        *)

PhaseOk(fase) == \E i \in DOMAIN ran : ran[i].fase = fase /\ ran[i].ok
PhaseFailed(fase) == \E i \in DOMAIN ran : ran[i].fase = fase /\ ~ran[i].ok
Terminated == pc = "done"
HasResult == Terminated /\ out.kind \in {"returned", "printed"} /\ ~out.nil

\* The extracted fields as the entry point assembles them.
FieldsOf(e, nfe) ==
  IF e \in {"validator", "mock"} THEN DadosSoDigitos(nfe)
  ELSE convertInternalNFeData(nfe)

\* C1: when a run of a pipeline entry point (ValidarXML, ValidarXMLBytes,
\* the three mains) has terminated, its result holds the output of every
\* phase that succeeded: ValidoXSD is true if the schema check passed, and
\* the extracted fields are present if the parse succeeded, whatever phase
\* failed later.
C1_ResultKeepsCompletedPhases ==
  (Terminated /\ ~KeyMode(entry, chaveArg)) =>
     /\ PhaseOk("xsd") => (HasResult /\ result.ValidoXSD)
     /\ PhaseOk("parse") =>
          /\ HasResult
          /\ result.temDados
          /\ result.Dados = FieldsOf(entry, nfeEnv)

\* The validator has parsed the document, derived the empty key and ended
\* with a result that has no extracted fields.
C1_Witness ==
  /\ Terminated
  /\ entry = "validator"
  /\ PhaseOk("xsd") /\ PhaseOk("parse") /\ PhaseFailed("chave")
  /\ HasResult /\ result.ValidoXSD
  /\ ~result.temDados

\* C2: in no result of any entry point (the mock main included) is a
\* status with a non-empty code or message attached to an empty access key.
C2_NoStatusOnEmptyKey ==
  (result.Codigo # <<>> \/ result.Mensagem # <<>>) => result.ChaveAcesso # <<>>

\* The mock main has printed a result with the status "000" and no key.
C2_Witness ==
  /\ HasResult
  /\ entry = "mock"
  /\ result.ChaveAcesso = <<>>
  /\ result.Codigo = Cod000
  /\ result.Mensagem # <<>>

\* C3: when the key derived from the parsed identifier is empty, the run
\* sends no status query, and it terminates with the extracted fields.
C3_EmptyKeySendsNoQuery ==
  PhaseFailed("chave") =>
     /\ sent = <<>>
     /\ Terminated => (HasResult /\ result.temDados)

\* A library run has derived the empty key and has sent a query with the
\* raw identifier in its place.
C3_Witness ==
  /\ Terminated
  /\ entry \in LibEntries
  /\ PhaseFailed("chave")
  /\ validation_ExtractChaveFromID(xdoc.id) = <<>>
  /\ sent = <<xdoc.id>>
  /\ result.temDados


-----------------------------------------------------------------------------
(* The properties of the response decoder and of the status predicates.    *)

C12_StatusPredicates ==
  preds.done =>
     /\ preds.IsCancelado <=> scode = <<"1", "0", "1">>
     /\ preds.IsNaoEncontrado <=> scode = <<"2", "1", "7">>
     /\ preds.IsRejeitado <=>
          (scode # <<>> /\ scode[1] \in {"2", "3", "4", "5", "6"})
     /\ scode \in {Cod100, Cod101, Cod102, Cod110} => ~preds.IsRejeitado

\* The predicates were asked of "101": canceled, not rejected.
C12_Witness ==
  /\ preds.done
  /\ scode = Cod101
  /\ preds.IsCancelado
  /\ ~preds.IsRejeitado

\* The body holds `<cStat>digits</cStat>` with at least one digit.
HasCStatField(body) ==
  \E i, j \in 1..Len(body) :
     /\ body[i] = TagCStat /\ body[j] = TagCStatEnd /\ j > i + 1
     /\ \A k \in (i + 1)..(j - 1) : body[k] \in Digits

HasXMotivoMarker(body) == \E i \in 1..Len(body) : body[i] = TagXMotivo

\* C13 as stated: a body that was read and holds no status-code field is
\* decoded, without error, to the code "999", the fixed message and
\* authorized = false.
C13_NoCodeGivesSentinelAndFixedMessage ==
  (decoded.done /\ resp.kind = "body" /\ ~HasCStatField(resp.body)) =>
     /\ decoded.err = "nil"
     /\ decoded.status.Codigo = Cod999
     /\ decoded.status.Mensagem = MsgNaoParseada
     /\ ~decoded.status.Autorizado

\* C13 amended: a body that was read and holds no status-code field is
\* decoded, without error, to the code "999" and authorized = false; the
\* message is the fixed one when the body holds no <xMotivo> marker either.
C13_NoCodeGivesSentinel ==
  (decoded.done /\ resp.kind = "body" /\ ~HasCStatField(resp.body)) =>
     /\ decoded.err = "nil"
     /\ decoded.status.Codigo = Cod999
     /\ ~decoded.status.Autorizado
     /\ ~HasXMotivoMarker(resp.body) => decoded.status.Mensagem = MsgNaoParseada

\* A body with an empty status-code element and no message was decoded.
C13_Witness ==
  /\ decoded.done
  /\ resp = [kind |-> "body", body |-> <<TagCStat, TagCStatEnd>>]
  /\ decoded.status = [Autorizado |-> FALSE, Codigo |-> Cod999,
                       Mensagem |-> MsgNaoParseada]

FirstOpen(body) == IndexFrom(body, TagXMotivo, 1)
FirstCloseAfterOpen(body) == IndexFrom(body, TagXMotivoEnd, FirstOpen(body) + 1)

\* C14: of a body that holds <xMotivo> and a later </xMotivo>, the decoded
\* message is the text between the first <xMotivo> and the first
\* </xMotivo> after it; the body
\* <cStat>100</cStat><xMotivo>Autorizado o uso da NF-e</xMotivo> decodes
\* to "100", that message and authorized = true.
C14_MessageBetweenFirstMarkers ==
  (decoded.done /\ resp.kind = "body") =>
     /\ (FirstOpen(resp.body) # 0 /\ FirstCloseAfterOpen(resp.body) # 0) =>
          decoded.status.Mensagem =
            SubSeq(resp.body, FirstOpen(resp.body) + 1,
                   FirstCloseAfterOpen(resp.body) - 1)
     /\ resp.body = <<TagCStat, "1", "0", "0", TagCStatEnd,
                      TagXMotivo, "Autorizado o uso da NF-e", TagXMotivoEnd>> =>
          decoded.status = [Autorizado |-> TRUE, Codigo |-> Cod100,
                            Mensagem |-> <<"Autorizado o uso da NF-e">>]

\* The message of the second element was returned: the first one holds a
\* line feed.
C14_Witness ==
  /\ decoded.done
  /\ resp.body = <<TagXMotivo, "A", "\n", TagXMotivoEnd,
                   TagXMotivo, "B", TagXMotivoEnd>>
  /\ decoded.status.Mensagem = <<"B">>


-----------------------------------------------------------------------------
(* The properties of the pipelines: failures of the phases.                *)

PhaseRan(fase) == \E i \in DOMAIN ran : ran[i].fase = fase
NoStatus(r) == r.Codigo = <<>> /\ r.Mensagem = <<>> /\ ~r.Autorizado

\* C15: when the schema check fails the run ends there: no parse, key
\* derivation or query runs, and the result has ValidoXSD = false, the
\* error, no extracted fields, an empty key and no status.
C15_SchemaFailureEndsRun ==
  PhaseFailed("xsd") =>
     /\ HasResult
     /\ ~PhaseRan("parse") /\ ~PhaseRan("chave") /\ ~PhaseRan("sefaz")
     /\ ~PhaseRan("mock")
     /\ sent = <<>>
     /\ ~result.ValidoXSD
     /\ result.Erro # ""
     /\ ~result.temDados
     /\ result.ChaveAcesso = <<>>
     /\ NoStatus(result)

\* ValidarXMLBytes has ended on a document that fails the schema.
C15_Witness ==
  /\ Terminated
  /\ entry = "ValidarXMLBytes"
  /\ ran = <<[fase |-> "client", ok |-> TRUE], [fase |-> "xsd", ok |-> FALSE]>>
  /\ result = [ZeroResult EXCEPT !.Erro = "falha na validacao XSD"]

\* C16: when the schema check passes and the parse fails the run ends with
\* ValidoXSD = true, the parse error, an empty key, no extracted fields and
\* no status, and no query is sent.
C16_ParseFailureEndsRun ==
  (PhaseOk("xsd") /\ PhaseFailed("parse")) =>
     /\ HasResult
     /\ result.ValidoXSD
     /\ result.Erro # ""
     /\ result.ChaveAcesso = <<>>
     /\ ~result.temDados
     /\ NoStatus(result)
     /\ ~PhaseRan("sefaz") /\ ~PhaseRan("mock")
     /\ sent = <<>>

\* The main of part_001 has ended on a schema-valid document without the
\* identifier attribute.
C16_Witness ==
  /\ Terminated
  /\ entry = "cli"
  /\ PhaseOk("xsd") /\ PhaseFailed("parse")
  /\ ~xdoc.hasId /\ xform = "bare"
  /\ result.ValidoXSD
  /\ result.Erro = "Falha ao parsear XML: " \o ErrIdNaoEncontrado
  /\ out.exit = 1

\* C17: when the schema check and the parse pass and the query fails, the
\* result has ValidoXSD = true, the access key, the extracted fields and
\* the error of the query, and no status.
C17_QueryFailureKeepsFields ==
  (PhaseOk("xsd") /\ PhaseOk("parse") /\ PhaseFailed("sefaz")) =>
     /\ HasResult
     /\ result.ValidoXSD
     /\ result.ChaveAcesso = xchave /\ xchave # <<>>
     /\ result.temDados
     /\ result.Dados = FieldsOf(entry, nfeEnv)
     /\ result.Erro # ""
     /\ NoStatus(result)

\* The validator has ended after a failed connection, with key and fields.
C17_Witness ==
  /\ Terminated
  /\ entry = "validator"
  /\ PhaseFailed("sefaz")
  /\ sent = <<RefKey>>
  /\ result.ChaveAcesso = RefKey
  /\ result.Dados.DestDoc = OnlyDigits(TxtCNPJFmt)
  /\ result.Erro = "Falha na comunicacao com a SEFAZ: erro na conexao mTLS/webservice"

\* The run ended without the query because of -xsd or -skip-sefaz.
RemoteSkipped ==
  Terminated /\ HasResult /\ (flags.xsdOnly \/ flags.skipSefaz) /\ ~PhaseRan("sefaz")

\* C18: a result of a run whose query was skipped (-xsd, -skip-sefaz) or
\* failed has no status: empty code, empty message, authorized = false.
C18_NoStatusWhenSkippedOrFailed ==
  ((RemoteSkipped \/ PhaseFailed("sefaz")) /\ HasResult) => NoStatus(result)

\* The validator has ended under -skip-sefaz with the code "N/A".
C18_Witness ==
  /\ RemoteSkipped
  /\ entry = "validator"
  /\ flags.skipSefaz
  /\ result.Codigo = CodNA
  /\ result.Mensagem # <<>>

\* C20: in every entry point that can query the remote service, the
\* client (certificate and trust store) is built before a schema check or
\* a parse runs, and when it cannot be built no schema check or parse runs.
C20_ClientBeforeValidation ==
  entry \in Entries \ {"mock"} =>
     /\ \A i \in DOMAIN ran :
          ran[i].fase \in {"xsd", "parse"} =>
             \E j \in 1..(i - 1) : ran[j].fase = "client" /\ ran[j].ok
     /\ PhaseFailed("client") => (~PhaseRan("xsd") /\ ~PhaseRan("parse"))

\* The validator has checked and parsed the document and then failed to
\* load the client key pair.
C20_Witness ==
  /\ Terminated
  /\ entry = "validator"
  /\ PhaseOk("xsd") /\ PhaseOk("parse")
  /\ ran[Len(ran)] = [fase |-> "client", ok |-> FALSE]
  /\ result.Erro = "Falha na configuracao mTLS (Certificados): falha ao carregar chaves PEM"


-----------------------------------------------------------------------------
(* The property of concurrent schema checks.                               *)

\* C19: under every interleaving of concurrent calls on independent
\* documents, each call returns what it returns when it runs alone; the
\* initialise and the cleanup of the library inside one call never make
\* another call fail or use a library that is not initialised.
C19_ConcurrentCallsAsAlone ==
  \A g \in CallIds :
     /\ calls[g].pc = "done" => calls[g].ret = Alone(calls[g].in)
     /\ calls[g].pc \in {"handler", "validate"} => lib.init

\* A call on a valid document has returned an error: another call had
\* cleaned the library up before this one loaded the schema.
C19_Witness ==
  /\ \A g \in CallIds : calls[g].pc = "done" /\ calls[g].in = "valido"
  /\ calls[1].ret = "nil"
  /\ calls[2].ret = "erro ao carregar XSD"


-----------------------------------------------------------------------------
(* The properties of the trust store.                                      *)

TrustDone == tst.pc = "done"
Tried(name) == \E j \in 1..Len(tst.tried) : tst.tried[j] = name
Warned(name) == \E j \in 1..Len(tst.warns) : tst.warns[j].name = name

\* C21: with a key pair that loads and a directory that can be listed,
\* NewClient succeeds whatever the directory holds: every file the scan
\* tries that cannot be read or holds no certificate is passed over with a
\* warning and stays out of the pool, and every file it tries that holds a
\* certificate is in the pool, wherever the damaged files are listed.
C21_DamagedFileNeverAborts ==
  (TrustDone /\ tenv.keyPair /\ tenv.listable) =>
     /\ tst.ret = "nil"
     /\ tst.i = Len(tenv.entries) + 1
     /\ \A i \in 1..Len(tenv.entries) :
          LET e == tenv.entries[i]
          IN  Tried(e.name) =>
                /\ e.kind = "cert" =>
                     e.name \in tst.pool.added /\ ~Warned(e.name)
                /\ e.kind \in {"unreadable", "nocert"} =>
                     e.name \notin tst.pool.added /\ Warned(e.name)

\* A build over an unreadable file, then a damaged one, then a certificate.
C21_Witness ==
  /\ TrustDone /\ tenv.keyPair /\ tenv.listable
  /\ \E i, j, k \in 1..Len(tenv.entries) :
       /\ i < j /\ j < k
       /\ tenv.entries[i].kind = "cert" /\ Tried(tenv.entries[i].name)
       /\ tenv.entries[j].kind = "unreadable" /\ Tried(tenv.entries[j].name)
       /\ tenv.entries[k].kind = "cert" /\ Tried(tenv.entries[k].name)
       /\ tenv.entries[k].name \in tst.pool.added

\* C27: an entry is tried for the pool iff it is no directory, its name is
\* not cfg.CertKeyFile and its name ends in .crt or .pem.
C27_TriedIffCertificateFile ==
  (TrustDone /\ tenv.keyPair /\ tenv.listable) =>
     \A i \in 1..Len(tenv.entries) :
        LET e == tenv.entries[i]
        IN  Tried(e.name) <=>
              /\ e.kind # "dir"
              /\ e.name # tenv.CertKeyFile
              /\ HasSuffix(e.name, ExtCrt) \/ HasSuffix(e.name, ExtPem)

\* The configured key file k.pem was tried for the pool.
C27_Witness ==
  /\ TrustDone /\ tenv.keyPair /\ tenv.listable
  /\ tenv.CertKeyFile # LitKeyPem
  /\ Tried(tenv.CertKeyFile)

-----------------------------------------------------------------------------
(* The properties of what the methods of Client return.                    *)

\* The method of Client was called (nfe.NewClient gave a client) and has
\* returned.
Returned(e) == entry = e /\ PhaseOk("client") /\ Terminated

\* C22: ValidarXMLBytes returns a result and a nil error; ValidarXML
\* returns a nil result with an error only when the file cannot be read;
\* a failed schema check, parse or query is in result.Erro and the
\* returned error is nil; of result and error exactly one is nil.
C22_FailuresAreData ==
  /\ Returned("ValidarXMLBytes") => ~out.nil /\ out.err = "nil"
  /\ Returned("ValidarXML") =>
       /\ out.nil <=> PhaseFailed("read")
       /\ out.nil <=> out.err # "nil"
  /\ (Returned("ValidarXMLBytes") \/ Returned("ValidarXML")) =>
       /\ out.kind = "returned"
       /\ (PhaseFailed("xsd") \/ PhaseFailed("parse") \/ PhaseFailed("sefaz")) =>
            ~out.nil /\ out.err = "nil" /\ result.Erro # ""
       /\ out.nil => result = ZeroResult

\* ValidarXML has returned a result that carries the error of the parse.
C22_Witness ==
  /\ Returned("ValidarXML")
  /\ PhaseOk("read") /\ PhaseOk("xsd") /\ PhaseFailed("parse")
  /\ ~out.nil /\ out.err = "nil"
  /\ result.Erro # ""

-----------------------------------------------------------------------------
(* The order of the phases.                                                *)

\* The run is given a document: it is no query by key.
XmlRun == ~KeyMode(entry, chaveArg)

PipelinePhases == {"xsd", "parse", "chave", "sefaz"}
PhaseOrder == <<"xsd", "parse", "chave", "sefaz">>

\* The pipeline phases the run has run so far, in the order it ran them.
PhasesRun ==
  LET r == SelectSeq(ran, LAMBDA x : x.fase \in PipelinePhases)
  IN  [i \in 1..Len(r) |-> r[i].fase]

PhasesInOrder ==
  /\ Len(PhasesRun) <= Len(PhaseOrder)
  /\ PhasesRun = SubSeq(PhaseOrder, 1, Len(PhasesRun))
  /\ PhaseRan("parse") => PhaseOk("xsd")
  /\ PhaseRan("chave") => PhaseOk("parse")
  /\ PhaseRan("sefaz") => PhaseOk("parse") /\ ~flags.xsdOnly /\ ~flags.skipSefaz
  /\ (flags.xsdOnly /\ Terminated) => ~PhaseRan("parse")
  /\ (Terminated /\ (PhaseOk("read") \/ Returned("ValidarXMLBytes"))) => PhaseRan("xsd")

\* C23: a run on a document runs SchemaCheck, Parse, KeyDerive and the
\* remote query in this order and each at most once: the schema check is
\* the first and runs whenever the document has been read, the parse runs
\* only after the schema check passed, the query only after the parse
\* passed and never under -xsd or -skip-sefaz; and every run ends.
C23_PhasesInOrderAndRunEnds ==
  /\ [](XmlRun => PhasesInOrder)
  /\ XmlRun ~> Terminated

\* The cli has run all four phases and has ended.
C23_Witness ==
  /\ entry = "cli" /\ XmlRun /\ Terminated
  /\ PhasesRun = PhaseOrder
  /\ PhaseOk("sefaz")

-----------------------------------------------------------------------------
(* The properties of the status request.                                   *)

\* C24: the one variable field of every status request that is sent, by
\* any entry point, is 44 ASCII digits; a key that ValidarChave accepts is
\* sent in that form only.
C24_RequestsCarry44Digits ==
  \A i \in DOMAIN sent : Is44Digits(sent[i])

\* ValidarChave accepted a key written with a space and sent it as given.
C24_Witness ==
  /\ entry = "ValidarChave" /\ Terminated
  /\ PhaseOk("formato")
  /\ chaveArg = RefKeyFmt
  /\ sent = <<RefKeyFmt>>
  /\ ~Is44Digits(sent[1])

\* C25: the code of every status ConsultaSituacaoNFe returns without error
\* is exactly three ASCII digits, whatever the response body.
C25_CodeIsThreeDigits ==
  (decoded.done /\ decoded.err = "nil") =>
     /\ Len(decoded.status.Codigo) = 3
     /\ AllDigitRunes(decoded.status.Codigo)

\* A body with <cStat>1000</cStat> was decoded to the code "1000".
C25_Witness ==
  /\ decoded.done /\ decoded.err = "nil"
  /\ resp.kind = "body"
  /\ decoded.status.Codigo = <<"1", "0", "0", "0">>
  /\ ~decoded.status.Autorizado

-----------------------------------------------------------------------------
(* The order of the two decoders in ParseNFe.                              *)

\* What ParseNFe is to return given what the enveloped and the bare
\* decoder make of the document; malformed(e) and missingId are the errors
\* of the implementation.
FirstDecoderThatSucceeds(r, env, bare, malformed(_), missingId) ==
  IF env.err = "nil" /\ env.val.NFe.InfNFe.ID # <<>>
  THEN r.err = "nil" /\ r.nfe = env.val.NFe
  ELSE IF bare.err # "nil"
  THEN r.err = malformed(bare.err) /\ r.err # "nil" /\ r.err # missingId
  ELSE IF bare.val.InfNFe.ID = <<>>
  THEN r.err = missingId
  ELSE r.err = "nil" /\ r.nfe = bare.val

\* C26: ParseNFe returns the record of the enveloped decoder iff that
\* decoder raised no error and the identifier it found is non-empty;
\* otherwise it returns what the bare decoder gives: the malformed error on
\* a decode error, the missing-identifier error on an empty identifier,
\* the bare record otherwise.
C26_EnvelopedThenBare ==
  \A f \in Forms :
    parsed[f].done =>
      LET env == Unmarshal_ProcNFe(Render(ldoc, f))
          bare == Unmarshal_NFeEnvelope(Render(ldoc, f))
      IN  /\ FirstDecoderThatSucceeds(parsed[f].nfe, env, bare,
                                      ErrFormatoInvalido, ErrIdNaoEncontradoNoXML)
          /\ FirstDecoderThatSucceeds(parsed[f].validation, env, bare,
                                      LAMBDA e : e, ErrIdNaoEncontrado)
          /\ FirstDecoderThatSucceeds(parsed[f].main, env, bare,
                                      LAMBDA e : e, ErrIdNaoEncontrado)

\* An enveloped document with an empty identifier was parsed: the enveloped
\* decoder raised no error, and the result is the bare decoder's error.  Its
\* bare form was parsed too and gave the missing-identifier error.
C26_Witness ==
  /\ ldoc.hasId /\ ldoc.id = <<>>
  /\ parsed["enveloped"].done /\ parsed["bare"].done
  /\ Unmarshal_ProcNFe(Render(ldoc, "enveloped")).err = "nil"
  /\ parsed["enveloped"].nfe.err = ErrFormatoInvalido(ErrExpected("NFe", "nfeProc"))
  /\ parsed["enveloped"].validation.err = ErrExpected("NFe", "nfeProc")
  /\ parsed["bare"].nfe.err = ErrIdNaoEncontradoNoXML

-----------------------------------------------------------------------------
(* The authorized flag and the authorized category.                        *)

\* C28: in every result a method of Client returns, Autorizado is what
\* Status.IsAutorizado() says of the result's code.
C28_AutorizadoIsIsAutorizado ==
  \A e \in {"ValidarXML", "ValidarXMLBytes", "ValidarChave"} :
    (Returned(e) /\ ~out.nil) =>
       (result.Autorizado <=> IsAutorizado(result.Codigo))

\* ValidarChave returned the code 110 with Autorizado = true, and
\* IsAutorizado() is false for it.
C28_Witness ==
  /\ Returned("ValidarChave") /\ ~out.nil
  /\ PhaseOk("sefaz")
  /\ result.Codigo = Cod110
  /\ result.Autorizado
  /\ ~IsAutorizado(result.Codigo)
  /\ IsDenegado(result.Codigo)

-----------------------------------------------------------------------------
(* The two ExtractChaveFromID.                                             *)

\* C29: pkg/nfe.ExtractChaveFromID and internal/validation's
\* ExtractChaveFromID return the same key for every identifier.
C29_SameKeyFromBothExtractors ==
  kop = "extract" => kout.nfe = kout.validation

\* For an identifier that is the 44 digits without the prefix, pkg/nfe
\* returned the key and internal/validation the empty key.
C29_Witness ==
  /\ kop = "extract" /\ arg = RefKey
  /\ kout.nfe = RefKey
  /\ kout.validation = <<>>

-----------------------------------------------------------------------------
(* The coherence of a result of ValidarXML and ValidarXMLBytes.            *)

\* C30: in every result ValidarXML or ValidarXMLBytes returns, Autorizado
\* implies a nil Erro, ValidoXSD, a non-empty access key and the extracted
\* fields; and a result with an Erro has neither Autorizado nor a code.
C30_AuthorizedResultIsComplete ==
  \A e \in LibEntries :
    (Returned(e) /\ ~out.nil) =>
       /\ result.Autorizado =>
            /\ result.Erro = ""
            /\ result.ValidoXSD
            /\ result.ChaveAcesso # <<>>
            /\ result.temDados
            /\ result.Dados = convertInternalNFeData(nfeEnv)
       /\ result.Erro # "" => ~result.Autorizado /\ result.Codigo = <<>>

\* ValidarXMLBytes returned an authorized result with key and fields.
C30_Witness ==
  /\ Returned("ValidarXMLBytes") /\ ~out.nil
  /\ result.Autorizado /\ result.Codigo = Cod100
  /\ result.Erro = "" /\ result.ValidoXSD
  /\ result.ChaveAcesso = RefKey
  /\ result.temDados

=============================================================================
